---- MODULE Spec2Model ----
(***************************************************************************)
(* The request execution engine of the ackack.io API client               *)
(* (package client, Client.doRequest and its wrappers get/post/put/delete) *)
(* as a state machine: one logical call, its attempt loop, its two        *)
(* suspension points (linear backoff, rate-limit wait), the caller's      *)
(* context, and the classification of each attempt's outcome.             *)
(* Durations are in seconds (time.Second is the unit).                    *)
(***************************************************************************)
EXTENDS Integers, Sequences, FiniteSets, TLC

VARIABLES
    pc,          \* position of the call: start, loop, backoff, send, inflight, ratelimit, done
    method,      \* HTTP method handed to doRequest by get/post/put/delete
    body,        \* the caller's body object: "nil", "ok" (serializable), "bad" (json.Marshal fails)
    urlOK,       \* whether the path keeps c.BaseURL+path acceptable to http.NewRequestWithContext
    hasResult,   \* result != nil
    result,      \* the destination *result points to (string fields id, name)
    result0,     \* history: the destination as the caller handed it in
    bodyReader,  \* the io.Reader handed to the next request: "nil", "fresh", "consumed"
    attempt,     \* loop variable of `for attempt := range maxRetries`
    lastErr,     \* local lastErr
    resp,        \* the response of the most recent attempt that got a status line
    ret,         \* the error doRequest returned (meaningful when pc = "done")
    ctxDone,     \* ctx.Done() is closed
    inFlight,    \* number of HTTP requests of this call currently in flight
    log,         \* history: Do calls and timers started, in order
    outcomes,    \* history: how each finished attempt ended
    fired,       \* history: number of timers that ran to completion
    requests,    \* history: the body of each request handed to c.HTTPClient.Do
    client,      \* the Client: receiver c of doRequest, r.client of the resources
    parked,      \* the locals of the other call on the same Client while this one runs
    running,     \* which of the two calls the locals above belong to
    env,         \* the process environment: ACKACK_API_KEY, ACKACK_ENDPOINT
    config,      \* the provider block of the configuration: api_key, endpoint
    version,     \* AckackProvider.version
    diags,       \* resp.Diagnostics of the handler that ran last
    tfState,     \* the Terraform state of one resource of each type
    apiCalls,    \* history: number of calls the handlers made on the Client
    handled,     \* history: the handler that ran last, and what it met
    monitorRes,  \* the monitor resource: plan, the API's monitor, Terraform state
    systemRes,   \* the system resource: plan and state monitor_ids, the API's membership
    built,       \* the arguments and the return values of a NewClient call
    classified   \* an error value and the answers of the five predicates on it

\* The locals and the history of one call of doRequest
callVars == <<pc, method, body, urlOK, hasResult, result, result0, bodyReader, attempt, lastErr,
              resp, ret, ctxDone, inFlight, log, outcomes, fired, requests>>

\* The other call on the same Client
otherCallVars == <<parked, running>>

\* The provider and its resources
providerVars == <<env, config, version, diags, tfState, apiCalls, handled, monitorRes, systemRes>>

\* The applications of the pure functions
pureVars == <<built, classified>>

vars == <<callVars, client, otherCallVars, providerVars, pureVars>>

----------------------------------------------------------------------------
(* Program constants *)

\* Variant: one attempt more than the loop allows.
maxRetriesOneMore == 3 + 1

maxRetries == 3

retryBaseDelay == 1

defaultRetryAfter == 60

----------------------------------------------------------------------------
(* Bounds of the model *)

\* longest Retry-After header value drawn, in characters
MaxHeaderLen == 2

----------------------------------------------------------------------------
(* Input alphabets *)

Methods == {"GET", "POST", "PUT", "DELETE"}

\* Status codes a response can carry: 1xx, 2xx, 3xx, the client errors the
\* classification predicates know, 429, and two server errors.
Statuses == {101, 200, 201, 304, 400, 401, 403, 404, 429, 500, 503}

HeaderChars == {"-", "2", "x"}

\* Values of resp.Header.Get("Retry-After"); <<>> is the absent (or empty) header.
RetryAfterHeaders == UNION {[1..n -> HeaderChars] : n \in 0..MaxHeaderLen}

\* Response bodies as JSON token sequences; a numeric literal is written "#7".
\* A success carries nothing, an object with some of the destination's fields,
\* or something that does not decode (a number for id, truncated JSON, HTML).
SuccessBodies ==
    { <<>>,
      <<"{", "}">>,
      <<"{", "id", ":", "m1", "}">>,
      <<"{", "id", ":", "m1", ",", "name", ":", "web", "}">>,
      <<"{", "id", ":", "#7", ",", "name", ":", "web", "}">>,
      <<"{", "id", ":">>,
      <<"<html>">> }

\* An error response carries nothing, an object with some of the fields of
\* ErrorResponse, or HTML.
ErrorBodies ==
    { <<>>,
      <<"{", "}">>,
      <<"<html>">>,
      <<"{", "error", ":", "bad", "}">>,
      <<"{", "message", ":", "oops", "}">>,
      <<"{", "error", ":", "bad", ",", "message", ":", "oops", "}">> }

----------------------------------------------------------------------------
(* strconv.Atoi on a header value (a sequence of characters) *)

Digits == {"0", "1", "2", "3", "4", "5", "6", "7", "8", "9"}

DigitValue(c) ==
    CASE c = "0" -> 0 [] c = "1" -> 1 [] c = "2" -> 2 [] c = "3" -> 3 [] c = "4" -> 4
      [] c = "5" -> 5 [] c = "6" -> 6 [] c = "7" -> 7 [] c = "8" -> 8 [] c = "9" -> 9

RECURSIVE ParseDigits(_, _, _)
ParseDigits(s, i, acc) ==
    IF i > Len(s) THEN [ok |-> TRUE, val |-> acc]
    ELSE IF s[i] \notin Digits THEN [ok |-> FALSE, val |-> 0]
    ELSE ParseDigits(s, i + 1, acc * 10 + DigitValue(s[i]))

\* An optional sign, then one or more decimal digits; anything else is an error.
Atoi(s) ==
    IF Len(s) = 0 THEN [ok |-> FALSE, val |-> 0]
    ELSE LET first == IF s[1] \in {"-", "+"} THEN 2 ELSE 1
             r     == ParseDigits(s, first, 0)
         IN  IF first > Len(s) \/ ~r.ok THEN [ok |-> FALSE, val |-> 0]
             ELSE [ok |-> TRUE, val |-> IF s[1] = "-" THEN 0 - r.val ELSE r.val]

\* retryAfter of the 429 branch: 60 unless the header is non-empty and parses.
\* Variant: the parse error is ignored, so an unparseable header gives 0.
RetryAfterIgnoringParseError(ra) ==
    IF ra # <<>> THEN Atoi(ra).val ELSE defaultRetryAfter

RetryAfterSeconds(ra) ==
    IF ra # <<>> /\ Atoi(ra).ok THEN Atoi(ra).val ELSE defaultRetryAfter

\* retryBaseDelay * time.Duration(attempt)
\* Variant: the same delay before every retry.
BackoffDelayConstant(a) == retryBaseDelay

\* Variant: the delay counted from the retry index instead of the attempt index.
BackoffDelayFromZero(a) == retryBaseDelay * (a - 1)

BackoffDelay(a) == retryBaseDelay * a

----------------------------------------------------------------------------
(* encoding/json on token sequences, for structs whose fields are strings *)

Punct == {"{", "}", ":", ","}

NumberToks == {"#7"}

StringToks == {"id", "name", "error", "message", "m1", "web", "bad", "oops"}

\* checkValid: an object of key : value pairs separated by commas.
ValidJSON(b) ==
    /\ Len(b) >= 2
    /\ b[1] = "{"
    /\ b[Len(b)] = "}"
    /\ LET n == Len(b) - 2
       IN  /\ n = 0 \/ n % 4 = 3
           /\ \A j \in 1..n :
                 CASE j % 4 = 1 -> b[j + 1] \in StringToks
                   [] j % 4 = 2 -> b[j + 1] = ":"
                   [] j % 4 = 3 -> b[j + 1] \in StringToks \cup NumberToks
                   [] OTHER     -> b[j + 1] = ","

\* The object decoder: pairs in order; a key that names a field sets it when the
\* value is a string, and records an UnmarshalTypeError (and goes on) when it is
\* a number; other keys are skipped.  i is the position of the next key.
RECURSIVE DecodePairs(_, _, _, _)
DecodePairs(b, i, dst, err) ==
    IF i + 2 > Len(b) - 1 THEN [err |-> err, dst |-> dst]
    ELSE LET k == b[i]
             v == b[i + 2]
         IN  IF k \notin DOMAIN dst THEN DecodePairs(b, i + 4, dst, err)
             ELSE IF v \in NumberToks THEN DecodePairs(b, i + 4, dst, TRUE)
             ELSE DecodePairs(b, i + 4, [dst EXCEPT ![k] = v], err)

\* json.Unmarshal(b, &dst): a syntax error leaves dst alone.
Unmarshal(b, dst) ==
    IF ~ValidJSON(b) THEN [err |-> TRUE, dst |-> dst]
    ELSE DecodePairs(b, 2, dst, FALSE)

\* The zero value of ErrorResponse.
ZeroErrorResponse == [error |-> "", message |-> ""]

\* Destinations a caller hands in: a zero struct, or one that already holds data.
Results == { [id |-> "", name |-> ""], [id |-> "old", name |-> "prev"] }

\* http.StatusText
StatusText(status) ==
    CASE status = 101 -> "Switching Protocols"
      [] status = 200 -> "OK"
      [] status = 201 -> "Created"
      [] status = 304 -> "Not Modified"
      [] status = 400 -> "Bad Request"
      [] status = 401 -> "Unauthorized"
      [] status = 403 -> "Forbidden"
      [] status = 404 -> "Not Found"
      [] status = 429 -> "Too Many Requests"
      [] status = 500 -> "Internal Server Error"
      [] status = 503 -> "Service Unavailable"
      [] OTHER -> ""

----------------------------------------------------------------------------
(* Error values.  kind "nil" is the nil error; kind "api" is *APIError. *)

MkErr(kind, status, message, errorField, retryAfter, att, cause) ==
    [kind |-> kind, status |-> status, message |-> message, errorField |-> errorField,
     retryAfter |-> retryAfter, attempt |-> att, cause |-> cause]

NilErr == MkErr("nil", 0, "", "", 0, 0, "")

\* fmt.Errorf("failed to marshal request body: %w", err)
MarshalErr == MkErr("marshal", 0, "failed to marshal request body", "", 0, 0, "")

\* ctx.Err()
CtxErr == MkErr("ctx", 0, "context canceled", "", 0, 0, "")

\* fmt.Errorf("failed to create request: %w", err)
NewRequestErr == MkErr("newrequest", 0, "failed to create request", "", 0, 0, "")

\* fmt.Errorf("request failed: %w", err), of the attempt numbered att (from 1)
TransportErr(att, cause) == MkErr("transport", 0, "request failed", "", 0, att, cause)

\* fmt.Errorf("failed to read response body: %w", err)
ReadBodyErr(att) == MkErr("readbody", 0, "failed to read response body", "", 0, att, "")

\* fmt.Errorf("failed to unmarshal response: %w", err)
DecodeErr(att) == MkErr("decode", 0, "failed to unmarshal response", "", 0, att, "")

\* fmt.Errorf("max retries exceeded")
ExhaustedErr == MkErr("exhausted", 0, "max retries exceeded", "", 0, 0, "")

\* &APIError{StatusCode: 429, Message: "rate limited, retry after %d seconds"}
RateLimitErr(att, status, retryAfter) ==
    MkErr("api", status, "rate limited, retry after %d seconds", "", retryAfter, att, "")

\* Variant: the error field is looked at before the message field.
ErrorMessageErrorFirst(status, errorResp) ==
    IF errorResp.error # "" THEN errorResp.error
    ELSE IF errorResp.message # "" THEN errorResp.message
    ELSE StatusText(status)

\* The message of an error response: message, then error, then the status text.
ErrorMessage(status, errorResp) ==
    IF errorResp.message # "" THEN errorResp.message
    ELSE IF errorResp.error # "" THEN errorResp.error
    ELSE StatusText(status)

\* apiErr of an error response with body b
APIErrorOf(att, status, b) ==
    LET errorResp == IF Len(b) > 0 THEN Unmarshal(b, ZeroErrorResponse).dst
                     ELSE ZeroErrorResponse
    IN  MkErr("api", status, ErrorMessage(status, errorResp), errorResp.error, 0, att, "")

----------------------------------------------------------------------------
(* The predicates of errors.go; the type assertion to APIError succeeds
   for kind "api" only *)

\* the type assertion of err to a pointer to APIError
IsAPIError(err) == err.kind = "api"

IsNotFoundError(err) == IF IsAPIError(err) THEN err.status = 404 ELSE FALSE

\* Variant: the status of a server error is compared.
IsRateLimitErrorComparing503(err) == IF IsAPIError(err) THEN err.status = 503 ELSE FALSE

IsRateLimitError(err) == IF IsAPIError(err) THEN err.status = 429 ELSE FALSE

IsUnauthorizedError(err) == IF IsAPIError(err) THEN err.status = 401 ELSE FALSE

IsForbiddenError(err) == IF IsAPIError(err) THEN err.status = 403 ELSE FALSE

IsBadRequestError(err) == IF IsAPIError(err) THEN err.status = 400 ELSE FALSE

----------------------------------------------------------------------------
(* Classification of a status code *)

\* Variant: 429 is not singled out and falls to the client-error range.
IsRateLimitedNever(status) == FALSE

IsRateLimited(status) == status = 429

\* Variant: only 200 counts as success.
IsSuccessOnly200(status) == status = 200

IsSuccess(status) == status >= 200 /\ status < 300

\* Variant: 400 itself falls outside the range.
IsClientErrorAbove400(status) == status > 400 /\ status < 500

\* Variant: server errors are returned at once too.
IsClientErrorOrServerError(status) == status >= 400

IsClientError(status) == status >= 400 /\ status < 500

----------------------------------------------------------------------------
(* History records *)

\* A Do call (ev "do", n the attempt number from 1) or a timer started
\* (ev "backoff" or "ratelimit", n the attempt it follows, d its duration).
Event(ev, n, d) == [ev |-> ev, n |-> n, d |-> d]

\* How an attempt ended: "refused" (Do was called with a context already
\* done and returned its error before anything was sent), "transport" (the
\* request went out and Do failed), "readfail" (a status line arrived,
\* io.ReadAll failed), "response" (status, headers and body arrived).
Outcome(kind, status) == [kind |-> kind, status |-> status]

NoResponse == [attempt |-> 0, status |-> 0, header |-> <<>>, body |-> <<>>, readOK |-> FALSE]

----------------------------------------------------------------------------
(* The Client and NewClient *)

defaultBaseURL == "https://api.ackack.io"

\* 30 * time.Second
defaultTimeout == 30

\* A nil pointer to Client
NoClient == [nil |-> TRUE, BaseURL |-> "", APIKey |-> "", UserAgent |-> "", Timeout |-> 0]

\* &Client{BaseURL, APIKey, HTTPClient: &http.Client{Timeout: defaultTimeout}, UserAgent}
MkClient(baseURL, apiKey, userAgent) ==
    [nil |-> FALSE, BaseURL |-> baseURL, APIKey |-> apiKey, UserAgent |-> userAgent,
     Timeout |-> defaultTimeout]

\* fmt.Errorf("api_key is required")
ConfigErr == MkErr("config", 0, "api_key is required", "", 0, 0, "")

\* Variant: an empty key is accepted; the client is anonymous.
NewClientAnonymous(apiKey, endpoint, ver) ==
    [client |-> MkClient(IF endpoint = "" THEN defaultBaseURL ELSE endpoint, apiKey,
                         IF ver # "" THEN "terraform-provider-ackack/" \o ver
                         ELSE "terraform-provider-ackack"),
     err |-> NilErr]

\* NewClient(apiKey, endpoint, version): the pair it returns
NewClient(apiKey, endpoint, ver) ==
    IF apiKey = "" THEN [client |-> NoClient, err |-> ConfigErr]
    ELSE [client |-> MkClient(IF endpoint = "" THEN defaultBaseURL ELSE endpoint, apiKey,
                              IF ver # "" THEN "terraform-provider-ackack/" \o ver
                              ELSE "terraform-provider-ackack"),
          err |-> NilErr]

\* Base URLs that url.Parse, and with it http.NewRequestWithContext, rejects
\* whatever path follows (no scheme before the first colon).
UnparsableURLs == {":bad"}

\* The arguments NewClient is called with
APIKeys == {"", "envkey", "cfgkey", "k3"}

Endpoints == {"", "http://env", "http://cfg", ":bad"}

Versions == {"", "dev", "test", "1.0"}

\* Nothing was built yet from these arguments.
Unbuilt(apiKey, endpoint, ver) ==
    [apiKey |-> apiKey, endpoint |-> endpoint, version |-> ver, called |-> FALSE,
     client |-> NoClient, err |-> NilErr]

\* The Client the calls of the engine run on
TheClient == NewClient("envkey", "", "dev").client

----------------------------------------------------------------------------
(* Values of the provider: types.String, diagnostics, resource state *)

\* types.String is null, unknown or known; ValueString is "" unless known.
Null == [state |-> "null", value |-> ""]

Unknown == [state |-> "unknown", value |-> ""]

StringValue(v) == [state |-> "known", value |-> v]

IsNull(s) == s.state = "null"

ValueString(s) == IF s.state = "known" THEN s.value ELSE ""

\* An error diagnostic: AddError(summary, ...) has no attribute path,
\* AddAttributeError(path.Root(attribute), summary, ...) has one.
Diag(summary, attribute) == [severity |-> "error", summary |-> summary, attribute |-> attribute]

ResourceTypes == {"monitor", "alert", "system", "report"}

\* resp.State after RemoveResource
Removed == [removed |-> TRUE, id |-> "", name |-> ""]

\* A resource in the state, with the attributes the model follows
Tracked(id, name) == [removed |-> FALSE, id |-> id, name |-> name]

\* No handler has run.
NoHandler == [seq |-> 0, op |-> "none", type |-> "", err |-> NilErr]

\* No second call on the Client
NoCall == <<>>

\* No monitor resource and no system resource is followed.
NoMonitorResource == <<>>

NoSystemResource == <<>>

\* No error was handed to the predicates.
Unclassified(e) ==
    [err |-> e, called |-> FALSE, notFound |-> FALSE, rateLimit |-> FALSE,
     unauthorized |-> FALSE, forbidden |-> FALSE, badRequest |-> FALSE]

----------------------------------------------------------------------------
(* The entry points get, post, put, delete and the state at the call *)

\* get: no body; post, put: a body; delete: no body and no destination.
\* RemoveMonitorsFromSystem calls doRequest with DELETE and a body, a list of
\* strings, which json.Marshal accepts.
BodiesOf(m) ==
    IF m \in {"POST", "PUT"} THEN {"ok", "bad"}
    ELSE IF m = "DELETE" THEN {"nil", "ok"}
    ELSE {"nil"}

\* delete and RemoveMonitorsFromSystem pass no destination, get and put
\* always one, post either (AddMonitorsToSystem passes nil).
HasResultOf(m) ==
    IF m = "DELETE" THEN {FALSE} ELSE IF m = "POST" THEN BOOLEAN ELSE {TRUE}

ZeroResult == [id |-> "", name |-> ""]

ResultsOf(h) == IF h THEN Results ELSE {ZeroResult}

\* The arguments of one call of doRequest, before its first step
CallInit ==
    /\ pc = "start"
    /\ method \in Methods
    /\ body \in BodiesOf(method)
    /\ hasResult \in HasResultOf(method)
    /\ result \in ResultsOf(hasResult)
    /\ result0 = result
    /\ urlOK \in BOOLEAN
    /\ ctxDone \in BOOLEAN
    /\ bodyReader = "nil"
    /\ attempt = 0
    /\ lastErr = NilErr
    /\ resp = NoResponse
    /\ ret = NilErr
    /\ inFlight = 0
    /\ log = <<>>
    /\ outcomes = <<>>
    /\ fired = 0
    /\ requests = <<>>

\* No second call runs on the Client.
OneCall == parked = NoCall /\ running = 1

\* The provider is configured from the environment and runs no handler.
ProviderAtRest ==
    /\ env = [ACKACK_API_KEY |-> "envkey", ACKACK_ENDPOINT |-> ""]
    /\ config = [api_key |-> Null, endpoint |-> Null]
    /\ version = "dev"
    /\ diags = <<>>
    /\ tfState = [t \in ResourceTypes |-> Tracked("old", "prev")]
    /\ apiCalls = 0
    /\ handled = NoHandler
    /\ monitorRes = NoMonitorResource
    /\ systemRes = NoSystemResource

\* No pure function is being applied.
PureAtRest == built = Unbuilt("", "", "") /\ classified = Unclassified(NilErr)

\* One call on the Client that NewClient built
Init ==
    /\ CallInit
    /\ client = TheClient
    /\ OneCall
    /\ ProviderAtRest
    /\ PureAtRest

\* return err
Return(err) ==
    /\ pc' = "done"
    /\ ret' = err

\* Variant: only idempotent requests are tried again; after a failed POST
\* the loop ends.
NextIterationIdempotentOnly ==
    /\ attempt' = IF method = "POST" THEN maxRetries ELSE attempt + 1
    /\ pc' = "loop"

\* `continue`, and the end of the loop body: the next iteration
NextIteration == attempt' = attempt + 1 /\ pc' = "loop"

----------------------------------------------------------------------------
(* doRequest *)

\* The first json.Marshal(body), before the loop.
Marshal ==
    /\ pc = "start"
    /\ IF body = "bad"
       THEN /\ Return(MarshalErr)
            /\ UNCHANGED bodyReader
       ELSE /\ bodyReader' = IF body = "nil" THEN "nil" ELSE "fresh"
            /\ pc' = "send"
            /\ UNCHANGED ret
    /\ UNCHANGED <<method, body, urlOK, hasResult, result0, result, attempt, lastErr, resp,
                   ctxDone, inFlight, log, outcomes, fired>>
    /\ UNCHANGED <<requests, client, otherCallVars, providerVars, pureVars>>

\* Variant: nothing is returned after the loop.
ExitErrorNil == NilErr

\* After the loop: lastErr, or the generic error when there is none.
ExitError == IF lastErr # NilErr THEN lastErr ELSE ExhaustedErr

\* The loop condition fails: return.
LoopExit ==
    /\ pc = "loop"
    /\ attempt >= maxRetries
    /\ Return(ExitError)
    /\ UNCHANGED <<method, body, urlOK, hasResult, result0, result, bodyReader, attempt, lastErr,
                   resp, ctxDone, inFlight, log, outcomes, fired>>
    /\ UNCHANGED <<requests, client, otherCallVars, providerVars, pureVars>>

\* attempt > 0: the select on ctx.Done() and time.After(retryBaseDelay * attempt)
\* is entered.  A context that is already done is the only ready case.
BackoffStart ==
    /\ pc = "loop"
    /\ attempt < maxRetries
    /\ attempt > 0
    /\ log' = Append(log, Event("backoff", attempt, BackoffDelay(attempt)))
    /\ pc' = "backoff"
    /\ UNCHANGED <<method, body, urlOK, hasResult, result0, result, bodyReader, attempt, lastErr,
                   resp, ret, ctxDone, inFlight, outcomes, fired>>
    /\ UNCHANGED <<requests, client, otherCallVars, providerVars, pureVars>>

\* Variant: the backoff sleeps for its whole duration, whatever the context.
BackoffFireSleeping ==
    /\ pc = "backoff"
    /\ fired' = fired + 1
    /\ pc' = "send"
    /\ UNCHANGED <<method, body, urlOK, hasResult, result0, result, bodyReader, attempt, lastErr,
                   resp, ret, ctxDone, inFlight, log, outcomes>>
    /\ UNCHANGED <<requests, client, otherCallVars, providerVars, pureVars>>

\* case <-time.After(...): the timer ran out before the context was done
BackoffFire ==
    /\ pc = "backoff"
    /\ ~ctxDone
    /\ fired' = fired + 1
    /\ pc' = "send"
    /\ UNCHANGED <<method, body, urlOK, hasResult, result0, result, bodyReader, attempt, lastErr,
                   resp, ret, ctxDone, inFlight, log, outcomes>>
    /\ UNCHANGED <<requests, client, otherCallVars, providerVars, pureVars>>

\* case <-ctx.Done(): return ctx.Err()
BackoffCancelled ==
    /\ pc = "backoff"
    /\ ctxDone
    /\ Return(CtxErr)
    /\ UNCHANGED <<method, body, urlOK, hasResult, result0, result, bodyReader, attempt, lastErr,
                   resp, ctxDone, inFlight, log, outcomes, fired>>
    /\ UNCHANGED <<requests, client, otherCallVars, providerVars, pureVars>>

\* json.Marshal of the caller's body object, as JSON tokens
MarshalJSON(b) == IF b = "ok" THEN <<"{", "name", ":", "web", "}">> ELSE <<>>

\* Variant: the reader of the first attempt serves every attempt.
ReaderForAttemptReused == bodyReader

\* The body reader of this attempt: serialized again on a retry.
ReaderForAttempt == IF body # "nil" /\ attempt > 0 THEN "fresh" ELSE bodyReader

\* The body of the request that http.NewRequestWithContext builds from the
\* reader: a bytes.Reader yields what has not been read from it yet, and
\* nothing once it was read to its end; a nil reader gives no body.
RequestBody ==
    [n |-> attempt + 1, reader |-> ReaderForAttempt,
     bytes |-> IF ReaderForAttempt = "fresh" THEN MarshalJSON(body) ELSE <<>>]

\* c.BaseURL+path is a URL that http.NewRequestWithContext accepts.
RequestURLOK == urlOK /\ client.BaseURL \notin UnparsableURLs

\* http.NewRequestWithContext fails: return.
NewRequestFails ==
    /\ pc = "send"
    /\ ~RequestURLOK
    /\ bodyReader' = ReaderForAttempt
    /\ Return(NewRequestErr)
    /\ UNCHANGED <<method, body, urlOK, hasResult, result0, result, attempt, lastErr, resp,
                   ctxDone, inFlight, log, outcomes, fired>>
    /\ UNCHANGED <<requests, client, otherCallVars, providerVars, pureVars>>

\* Variant: building the request overwrites c.BaseURL.
SendRewritingBaseURL ==
    /\ pc = "send"
    /\ RequestURLOK
    /\ ~ctxDone
    /\ log' = Append(log, Event("do", attempt + 1, 0))
    /\ bodyReader' = IF ReaderForAttempt = "nil" THEN "nil" ELSE "consumed"
    /\ resp' = NoResponse
    /\ inFlight' = inFlight + 1
    /\ pc' = "inflight"
    /\ client' = [client EXCEPT !.BaseURL = ":bad"]
    /\ requests' = Append(requests, RequestBody)
    /\ UNCHANGED <<method, body, urlOK, hasResult, result0, result, attempt, lastErr, ret,
                   ctxDone, outcomes, fired>>
    /\ UNCHANGED <<otherCallVars, providerVars, pureVars>>

\* c.HTTPClient.Do(req) with a live context: the request goes out.
Send ==
    /\ pc = "send"
    /\ RequestURLOK
    /\ ~ctxDone
    /\ log' = Append(log, Event("do", attempt + 1, 0))
    /\ bodyReader' = IF ReaderForAttempt = "nil" THEN "nil" ELSE "consumed"
    /\ resp' = NoResponse
    /\ inFlight' = inFlight + 1
    /\ pc' = "inflight"
    /\ UNCHANGED <<method, body, urlOK, hasResult, result0, result, attempt, lastErr, ret,
                   ctxDone, outcomes, fired>>
    /\ requests' = Append(requests, RequestBody)
    /\ UNCHANGED <<client, otherCallVars, providerVars, pureVars>>

\* Variant: a transport that sends without looking at the context first.
SendIgnoringContext ==
    /\ pc = "send"
    /\ RequestURLOK
    /\ ctxDone
    /\ log' = Append(log, Event("do", attempt + 1, 0))
    /\ bodyReader' = IF ReaderForAttempt = "nil" THEN "nil" ELSE "consumed"
    /\ resp' = NoResponse
    /\ inFlight' = inFlight + 1
    /\ pc' = "inflight"
    /\ UNCHANGED <<method, body, urlOK, hasResult, result0, result, attempt, lastErr, ret,
                   ctxDone, outcomes, fired>>
    /\ requests' = Append(requests, RequestBody)
    /\ UNCHANGED <<client, otherCallVars, providerVars, pureVars>>

\* c.HTTPClient.Do(req) with a context that is already done: the transport
\* looks at the request's context before it obtains a connection, so Do
\* returns the context's error with nothing sent; the loop records it as a
\* failed request and continues.
SendCancelled ==
    /\ pc = "send"
    /\ RequestURLOK
    /\ ctxDone
    /\ log' = Append(log, Event("do", attempt + 1, 0))
    /\ bodyReader' = ReaderForAttempt
    /\ outcomes' = Append(outcomes, Outcome("refused", 0))
    /\ lastErr' = TransportErr(attempt + 1, "ctx")
    /\ resp' = NoResponse
    /\ NextIteration
    /\ UNCHANGED <<method, body, urlOK, hasResult, result0, result, ret, ctxDone, inFlight, fired>>
    /\ requests' = Append(requests, RequestBody)
    /\ UNCHANGED <<client, otherCallVars, providerVars, pureVars>>

\* Variant: lastErr keeps the first error recorded.
RespondTransportErrorKeepingFirst ==
    /\ pc = "inflight"
    /\ \E cause \in {"conn"} \cup (IF ctxDone THEN {"ctx"} ELSE {}) :
          lastErr' = IF lastErr = NilErr THEN TransportErr(attempt + 1, cause) ELSE lastErr
    /\ inFlight' = inFlight - 1
    /\ outcomes' = Append(outcomes, Outcome("transport", 0))
    /\ NextIteration
    /\ UNCHANGED <<method, body, urlOK, hasResult, result0, result, bodyReader, resp, ret, ctxDone,
                   log, fired>>
    /\ UNCHANGED <<requests, client, otherCallVars, providerVars, pureVars>>

\* Do returns an error: connection failure, the per-request timeout, or the
\* context ending while the request is in flight.
RespondTransportError ==
    /\ pc = "inflight"
    /\ \E cause \in {"conn"} \cup (IF ctxDone THEN {"ctx"} ELSE {}) :
          lastErr' = TransportErr(attempt + 1, cause)
    /\ inFlight' = inFlight - 1
    /\ outcomes' = Append(outcomes, Outcome("transport", 0))
    /\ NextIteration
    /\ UNCHANGED <<method, body, urlOK, hasResult, result0, result, bodyReader, resp, ret, ctxDone,
                   log, fired>>
    /\ UNCHANGED <<requests, client, otherCallVars, providerVars, pureVars>>

\* Variant: the status is looked at before the error of io.ReadAll, and a
\* client error is returned at once.
RespondReadErrorInspectingStatus ==
    /\ pc = "inflight"
    /\ \E status \in Statuses :
          /\ resp' = [attempt |-> attempt + 1, status |-> status, header |-> <<>>,
                      body |-> <<>>, readOK |-> FALSE]
          /\ IF IsClientError(status) /\ ~IsRateLimited(status)
             THEN /\ Return(APIErrorOf(attempt + 1, status, <<>>))
                  /\ UNCHANGED <<attempt, lastErr>>
             ELSE /\ lastErr' = ReadBodyErr(attempt + 1)
                  /\ NextIteration
                  /\ UNCHANGED ret
    /\ inFlight' = inFlight - 1
    /\ outcomes' = Append(outcomes, Outcome("readfail", 0))
    /\ UNCHANGED <<method, body, urlOK, hasResult, result0, result, bodyReader, ctxDone,
                   log, fired>>
    /\ UNCHANGED <<requests, client, otherCallVars, providerVars, pureVars>>

\* Do returns a response, io.ReadAll(resp.Body) fails.
RespondReadError ==
    /\ pc = "inflight"
    /\ \E status \in Statuses :
          resp' = [attempt |-> attempt + 1, status |-> status, header |-> <<>>,
                   body |-> <<>>, readOK |-> FALSE]
    /\ lastErr' = ReadBodyErr(attempt + 1)
    /\ inFlight' = inFlight - 1
    /\ outcomes' = Append(outcomes, Outcome("readfail", 0))
    /\ NextIteration
    /\ UNCHANGED <<method, body, urlOK, hasResult, result0, result, bodyReader, ret, ctxDone,
                   log, fired>>
    /\ UNCHANGED <<requests, client, otherCallVars, providerVars, pureVars>>

\* Status 429: lastErr, then the select on ctx.Done() and
\* time.After(retryAfter seconds) is entered.
RespondRateLimited ==
    /\ pc = "inflight"
    /\ \E status \in {s \in Statuses : IsRateLimited(s)}, ra \in RetryAfterHeaders :
          /\ resp' = [attempt |-> attempt + 1, status |-> status, header |-> ra,
                      body |-> <<>>, readOK |-> TRUE]
          /\ lastErr' = RateLimitErr(attempt + 1, status, RetryAfterSeconds(ra))
          /\ log' = Append(log, Event("ratelimit", attempt + 1, RetryAfterSeconds(ra)))
          /\ outcomes' = Append(outcomes, Outcome("response", status))
    /\ inFlight' = inFlight - 1
    /\ pc' = "ratelimit"
    /\ UNCHANGED <<method, body, urlOK, hasResult, result0, result, bodyReader, attempt, ret,
                   ctxDone, fired>>
    /\ UNCHANGED <<requests, client, otherCallVars, providerVars, pureVars>>

\* case <-time.After(...) of the rate-limit wait, then continue.  A timer of
\* zero or negative duration is ready at once, also beside a done context.
RateLimitFire ==
    /\ pc = "ratelimit"
    /\ ~ctxDone \/ log[Len(log)].d <= 0
    /\ fired' = fired + 1
    /\ NextIteration
    /\ UNCHANGED <<method, body, urlOK, hasResult, result0, result, bodyReader, lastErr, resp, ret,
                   ctxDone, inFlight, log, outcomes>>
    /\ UNCHANGED <<requests, client, otherCallVars, providerVars, pureVars>>

\* case <-ctx.Done() of the rate-limit wait: return ctx.Err()
RateLimitCancelled ==
    /\ pc = "ratelimit"
    /\ ctxDone
    /\ Return(CtxErr)
    /\ UNCHANGED <<method, body, urlOK, hasResult, result0, result, bodyReader, attempt, lastErr,
                   resp, ctxDone, inFlight, log, outcomes, fired>>
    /\ UNCHANGED <<requests, client, otherCallVars, providerVars, pureVars>>

\* Variant: the length of the body is not looked at.
ShouldDecodeWheneverResult(b) == hasResult

\* result != nil && len(respBody) > 0
ShouldDecode(b) == hasResult /\ Len(b) > 0

\* Variant: the error of json.Unmarshal is dropped.
SuccessResultIgnoringDecode(b, att) == NilErr

\* What the success branch returns for body b on the attempt numbered att.
SuccessResult(b, att) ==
    IF ShouldDecode(b) /\ Unmarshal(b, result).err THEN DecodeErr(att) ELSE NilErr

\* Status in [200,300): decode into result when there is one and the body is
\* not empty; return.
RespondSuccess ==
    /\ pc = "inflight"
    /\ \E status \in {s \in Statuses : ~IsRateLimited(s) /\ IsSuccess(s)}, b \in SuccessBodies :
          /\ resp' = [attempt |-> attempt + 1, status |-> status, header |-> <<>>,
                      body |-> b, readOK |-> TRUE]
          /\ outcomes' = Append(outcomes, Outcome("response", status))
          /\ result' = IF ShouldDecode(b) THEN Unmarshal(b, result).dst ELSE result
          /\ Return(SuccessResult(b, attempt + 1))
    /\ inFlight' = inFlight - 1
    /\ UNCHANGED <<method, body, urlOK, hasResult, result0, bodyReader, attempt, lastErr, ctxDone,
                   log, fired>>
    /\ UNCHANGED <<requests, client, otherCallVars, providerVars, pureVars>>

\* Any other status: build apiErr; return it for [400,500), else record it
\* and go on to the next iteration.
RespondError ==
    /\ pc = "inflight"
    /\ \E status \in {s \in Statuses : ~IsRateLimited(s) /\ ~IsSuccess(s)}, b \in ErrorBodies :
          /\ resp' = [attempt |-> attempt + 1, status |-> status, header |-> <<>>,
                      body |-> b, readOK |-> TRUE]
          /\ outcomes' = Append(outcomes, Outcome("response", status))
          /\ IF IsClientError(status)
             THEN /\ Return(APIErrorOf(attempt + 1, status, b))
                  /\ UNCHANGED <<attempt, lastErr>>
             ELSE /\ lastErr' = APIErrorOf(attempt + 1, status, b)
                  /\ NextIteration
                  /\ UNCHANGED ret
    /\ inFlight' = inFlight - 1
    /\ UNCHANGED <<method, body, urlOK, hasResult, result0, result, bodyReader, ctxDone, log, fired>>
    /\ UNCHANGED <<requests, client, otherCallVars, providerVars, pureVars>>

\* The caller cancels the context, or its deadline passes.
Cancel ==
    /\ pc # "done"
    /\ ~ctxDone
    /\ ctxDone' = TRUE
    /\ UNCHANGED <<pc, method, body, urlOK, hasResult, result0, result, bodyReader, attempt,
                   lastErr, resp, ret, inFlight, log, outcomes, fired>>
    /\ UNCHANGED <<requests, client, otherCallVars, providerVars, pureVars>>

Next ==
    \/ Marshal
    \/ LoopExit
    \/ BackoffStart
    \/ BackoffFire
    \/ BackoffCancelled
    \/ NewRequestFails
    \/ Send
    \/ SendCancelled
    \/ RespondTransportError
    \/ RespondReadError
    \/ RespondRateLimited
    \/ RateLimitFire
    \/ RateLimitCancelled
    \/ RespondSuccess
    \/ RespondError
    \/ Cancel

Spec == Init /\ [][Next]_vars

\* The steps of the call itself: everything but the caller's Cancel.
CallStep ==
    \/ Marshal
    \/ LoopExit
    \/ BackoffStart
    \/ BackoffFire
    \/ BackoffCancelled
    \/ NewRequestFails
    \/ Send
    \/ SendCancelled
    \/ RespondTransportError
    \/ RespondReadError
    \/ RespondRateLimited
    \/ RateLimitFire
    \/ RateLimitCancelled
    \/ RespondSuccess
    \/ RespondError

\* The goroutine of the call keeps running: a timer that is started runs
\* out, and Do returns, at the latest when HTTPClient.Timeout has passed.
LiveSpec == Spec /\ WF_vars(CallStep)

----------------------------------------------------------------------------
(* Two calls on one Client.  The variables of a call hold the locals of the
   call whose goroutine takes the next step; parked holds the locals of the
   other.  Switch is the scheduler passing from one goroutine to the other,
   which can happen between any two steps.  The Client is the one thing the
   two share. *)

\* The locals and the history of the running call, as one value
CallState ==
    [pc |-> pc, method |-> method, body |-> body, urlOK |-> urlOK, hasResult |-> hasResult,
     result |-> result, result0 |-> result0, bodyReader |-> bodyReader, attempt |-> attempt,
     lastErr |-> lastErr, resp |-> resp, ret |-> ret, ctxDone |-> ctxDone,
     inFlight |-> inFlight, log |-> log, outcomes |-> outcomes, fired |-> fired,
     requests |-> requests]

\* A call before its first step: a get or a delete, its context live.  (The
\* running call is a get whose path may or may not give a valid URL, the
\* parked one a get or a delete with a valid URL.)
FreshCall(m, u) ==
    [pc |-> "start", method |-> m, body |-> "nil", urlOK |-> u, hasResult |-> (m = "GET"),
     result |-> ZeroResult, result0 |-> ZeroResult, bodyReader |-> "nil", attempt |-> 0,
     lastErr |-> NilErr, resp |-> NoResponse, ret |-> NilErr, ctxDone |-> FALSE,
     inFlight |-> 0, log |-> <<>>, outcomes |-> <<>>, fired |-> 0, requests |-> <<>>]

\* The responses the server gives while two calls run: nothing yet, or
\* 200 with an object, 404 or 503 with an empty body, 429 with
\* Retry-After: 2; every body is read to its end.
ServedConcurrently(r) ==
    \/ r = NoResponse
    \/ /\ r.readOK
       /\ r.status \in {200, 404, 429, 503}
       /\ r.header = IF r.status = 429 THEN <<"2">> ELSE <<>>
       /\ r.body = IF r.status = 200 THEN <<"{", "id", ":", "m1", "}">> ELSE <<>>

InitConcurrent ==
    /\ \E m \in {"GET"}, u \in BOOLEAN :
          /\ pc = "start" /\ method = m /\ body = "nil" /\ urlOK = u
          /\ hasResult = (m = "GET") /\ result = ZeroResult /\ result0 = ZeroResult
          /\ bodyReader = "nil" /\ attempt = 0 /\ lastErr = NilErr /\ resp = NoResponse
          /\ ret = NilErr /\ ctxDone = FALSE /\ inFlight = 0 /\ log = <<>>
          /\ outcomes = <<>> /\ fired = 0 /\ requests = <<>>
    /\ parked \in {FreshCall(m, TRUE) : m \in {"GET", "DELETE"}}
    /\ running = 1
    /\ client = TheClient
    /\ ProviderAtRest
    /\ PureAtRest

\* The scheduler passes to the other goroutine.
Switch ==
    /\ parked' = CallState
    /\ running' = 3 - running
    /\ pc' = parked.pc /\ method' = parked.method /\ body' = parked.body
    /\ urlOK' = parked.urlOK /\ hasResult' = parked.hasResult /\ result' = parked.result
    /\ result0' = parked.result0 /\ bodyReader' = parked.bodyReader
    /\ attempt' = parked.attempt /\ lastErr' = parked.lastErr /\ resp' = parked.resp
    /\ ret' = parked.ret /\ ctxDone' = parked.ctxDone /\ inFlight' = parked.inFlight
    /\ log' = parked.log /\ outcomes' = parked.outcomes /\ fired' = parked.fired
    /\ requests' = parked.requests
    /\ UNCHANGED <<client, providerVars, pureVars>>

\* A step of the running call, against the responses served
RunningCallStep == CallStep /\ ServedConcurrently(resp')

NextConcurrent ==
    \/ RunningCallStep
    \/ Switch

SpecConcurrent == InitConcurrent /\ [][NextConcurrent]_vars

----------------------------------------------------------------------------
(* NewClient applied to every combination of its arguments *)

\* No call of doRequest is running.
CallAtRest ==
    /\ pc = "none"
    /\ method = "GET"
    /\ body = "nil"
    /\ hasResult = FALSE
    /\ result = ZeroResult
    /\ result0 = ZeroResult
    /\ urlOK = TRUE
    /\ ctxDone = FALSE
    /\ bodyReader = "nil"
    /\ attempt = 0
    /\ lastErr = NilErr
    /\ resp = NoResponse
    /\ ret = NilErr
    /\ inFlight = 0
    /\ log = <<>>
    /\ outcomes = <<>>
    /\ fired = 0
    /\ requests = <<>>

InitNewClient ==
    /\ CallAtRest
    /\ client = NoClient
    /\ OneCall
    /\ ProviderAtRest
    /\ built \in {Unbuilt(k, e, v) : k \in APIKeys, e \in Endpoints, v \in Versions}
    /\ classified = Unclassified(NilErr)

\* c, err := NewClient(apiKey, endpoint, version)
CallNewClient ==
    /\ ~built.called
    /\ built' = [built EXCEPT !.called = TRUE,
                              !.client = NewClient(built.apiKey, built.endpoint, built.version).client,
                              !.err = NewClient(built.apiKey, built.endpoint, built.version).err]
    /\ UNCHANGED <<callVars, client, otherCallVars, providerVars, classified>>

NextNewClient == CallNewClient

SpecNewClient == InitNewClient /\ [][NextNewClient]_vars

----------------------------------------------------------------------------
(* The predicates of errors.go applied to every error the client returns *)

\* The values doRequest can return, nil included
ClientErrors ==
    {NilErr, MarshalErr, CtxErr, NewRequestErr, ExhaustedErr}
        \cup {TransportErr(maxRetries, cause) : cause \in {"conn", "ctx"}}
        \cup {ReadBodyErr(maxRetries)}
        \cup {DecodeErr(a) : a \in 1..maxRetries}
        \cup {APIErrorOf(a, st, b) : a \in 1..maxRetries,
                                     st \in {t \in Statuses : IsClientError(t) /\ ~IsRateLimited(t)},
                                     b \in ErrorBodies}
        \cup {APIErrorOf(maxRetries, st, b) :
                  st \in {t \in Statuses : ~IsClientError(t) /\ ~IsSuccess(t)}, b \in ErrorBodies}
        \cup {RateLimitErr(maxRetries, st, RetryAfterSeconds(ra)) :
                  st \in {t \in Statuses : IsRateLimited(t)}, ra \in RetryAfterHeaders}

InitErrors ==
    /\ CallAtRest
    /\ client = TheClient
    /\ OneCall
    /\ ProviderAtRest
    /\ built = Unbuilt("", "", "")
    /\ classified \in {Unclassified(e) : e \in ClientErrors}

\* A caller hands the error to each of the five predicates.
Classify ==
    /\ ~classified.called
    /\ classified' = [err |-> classified.err, called |-> TRUE,
                      notFound |-> IsNotFoundError(classified.err),
                      rateLimit |-> IsRateLimitError(classified.err),
                      unauthorized |-> IsUnauthorizedError(classified.err),
                      forbidden |-> IsForbiddenError(classified.err),
                      badRequest |-> IsBadRequestError(classified.err)]
    /\ UNCHANGED <<callVars, client, otherCallVars, providerVars, built>>

NextErrors == Classify

SpecErrors == InitErrors /\ [][NextErrors]_vars

----------------------------------------------------------------------------
(* The provider: Configure, and the handlers of the four resources *)

\* The handlers run in one session after Configure
MaxHandlers == 3

\* Variant: the environment wins over the configuration.
ResolvedAPIKeyEnvFirst ==
    IF env.ACKACK_API_KEY # "" THEN env.ACKACK_API_KEY ELSE ValueString(config.api_key)

\* apiKey := os.Getenv("ACKACK_API_KEY"), replaced by data.APIKey unless null
ResolvedAPIKey ==
    IF ~IsNull(config.api_key) THEN ValueString(config.api_key) ELSE env.ACKACK_API_KEY

\* endpoint := os.Getenv("ACKACK_ENDPOINT"), replaced by data.Endpoint unless null
ResolvedEndpoint ==
    IF ~IsNull(config.endpoint) THEN ValueString(config.endpoint) ELSE env.ACKACK_ENDPOINT

\* The errors a Get call of a resource returns, in kind: cancellation,
\* request building, transport, body read, decode, APIError of a terminal
\* status (attempt 1) and of a retried status (attempt 3).
ReadErrors ==
    {CtxErr, NewRequestErr, TransportErr(maxRetries, "conn"), ReadBodyErr(maxRetries), DecodeErr(1)}
        \cup {APIErrorOf(1, st, <<>>) : st \in {400, 401, 403, 404}}
        \cup {APIErrorOf(maxRetries, 500, <<"{", "error", ":", "bad", "}">>)}
        \cup {RateLimitErr(maxRetries, 429, defaultRetryAfter)}

\* What the API holds of the resource when the Get call succeeds
Fetched == {[id |-> "old", name |-> "prev"], [id |-> "old", name |-> "web"]}

InitProvider ==
    /\ CallAtRest
    /\ client = NoClient
    /\ OneCall
    /\ env \in [ACKACK_API_KEY : {"", "envkey"}, ACKACK_ENDPOINT : {"", "http://env"}]
    /\ config \in [api_key : {Null, Unknown, StringValue(""), StringValue("cfgkey")},
                    endpoint : {Null, StringValue(""), StringValue("http://cfg")}]
    /\ version \in {"dev", "1.0"}
    /\ diags = <<>>
    /\ tfState = [t \in ResourceTypes |-> Tracked("old", "prev")]
    /\ apiCalls = 0
    /\ handled = NoHandler
    /\ monitorRes = NoMonitorResource
    /\ systemRes = NoSystemResource
    /\ PureAtRest

\* AckackProvider.Configure.  req.Config.Get fills a model of two
\* types.String fields from a configuration of that schema and adds no error.
Configure ==
    /\ handled.seq = 0
    /\ IF ResolvedAPIKey = ""
       THEN /\ diags' = <<Diag("Missing ackack API Key", "api_key")>>
            /\ client' = client
       ELSE LET r == NewClient(ResolvedAPIKey, ResolvedEndpoint, version)
            IN  IF r.err # NilErr
                THEN /\ diags' = <<Diag("Unable to Create ackack API Client", "")>>
                     /\ client' = client
                ELSE /\ diags' = <<>>
                     /\ client' = r.client
    /\ handled' = [seq |-> 1, op |-> "Configure", type |-> "", err |-> NilErr]
    /\ UNCHANGED <<callVars, otherCallVars, env, config, version, tfState, apiCalls, pureVars,
                   monitorRes, systemRes>>

\* Variant: Read reports every error of the Get call, 404 included.
ReadOutcomeReportingNotFound(t, e, obj) ==
    IF e # NilErr
    THEN [state |-> tfState[t], diags |-> <<Diag("Client Error", "")>>]
    ELSE [state |-> Tracked(obj.id, obj.name), diags |-> <<>>]

\* What Read leaves in resp.State and resp.Diagnostics when the Get call
\* returned (obj, e): RemoveResource on a not-found error, a "Client Error"
\* diagnostic on any other error, else the model updated from the response.
ReadOutcome(t, e, obj) ==
    IF e # NilErr
    THEN IF IsNotFoundError(e)
         THEN [state |-> Removed, diags |-> <<>>]
         ELSE [state |-> tfState[t], diags |-> <<Diag("Client Error", "")>>]
    ELSE [state |-> Tracked(obj.id, obj.name), diags |-> <<>>]

\* Read of the resource of type t: req.State.Get (the state was written by
\* this provider and fits the model), one Get call on the client, then
\* ReadOutcome.
Read(t) ==
    /\ ~client.nil
    /\ handled.seq \in 1..(MaxHandlers - 1)
    /\ ~tfState[t].removed
    /\ \E e \in ReadErrors \cup {NilErr} :
       \E obj \in IF e = NilErr THEN Fetched ELSE {[id |-> "", name |-> ""]} :
          /\ tfState' = [tfState EXCEPT ![t] = ReadOutcome(t, e, obj).state]
          /\ diags' = ReadOutcome(t, e, obj).diags
          /\ handled' = [seq |-> handled.seq + 1, op |-> "Read", type |-> t, err |-> e]
    /\ apiCalls' = apiCalls + 1
    /\ UNCHANGED <<callVars, client, otherCallVars, env, config, version, pureVars, monitorRes,
                   systemRes>>

MonitorRead == Read("monitor")

AlertRead == Read("alert")

SystemRead == Read("system")

ReportRead == Read("report")

\* Variant: the report is updated in place like a monitor.
ReportUpdateInPlace ==
    /\ ~client.nil
    /\ handled.seq \in 1..(MaxHandlers - 1)
    /\ ~tfState["report"].removed
    /\ \E obj \in Fetched : tfState' = [tfState EXCEPT !["report"] = Tracked(obj.id, obj.name)]
    /\ diags' = <<>>
    /\ apiCalls' = apiCalls + 1
    /\ handled' = [seq |-> handled.seq + 1, op |-> "Update", type |-> "report", err |-> NilErr]
    /\ UNCHANGED <<callVars, client, otherCallVars, env, config, version, pureVars, monitorRes,
                   systemRes>>

\* ReportResource.Update: one error diagnostic, nothing else.
ReportUpdate ==
    /\ ~client.nil
    /\ handled.seq \in 1..(MaxHandlers - 1)
    /\ ~tfState["report"].removed
    /\ diags' = <<Diag("Update Not Supported", "")>>
    /\ handled' = [seq |-> handled.seq + 1, op |-> "Update", type |-> "report", err |-> NilErr]
    /\ UNCHANGED <<callVars, client, otherCallVars, env, config, version, tfState, apiCalls,
                   pureVars, monitorRes, systemRes>>

\* The errors a Delete call of a resource returns: those of a Get call but
\* the decode error (delete passes no destination).
DeleteErrors == ReadErrors \ {DecodeErr(1)}

\* Variant: Delete reports every error of the delete call, 404 included.
DeleteOutcomeReportingNotFound(t, e) ==
    IF e # NilErr
    THEN [state |-> tfState[t], diags |-> <<Diag("Client Error", "")>>]
    ELSE [state |-> Removed, diags |-> <<>>]

\* What Delete leaves when the delete call returned e: it returns without a
\* diagnostic on nil and on a not-found error, and adds "Client Error" on any
\* other error.  The framework removes the resource from the state after a
\* Delete that reported no error, and keeps the prior state otherwise.
DeleteOutcome(t, e) ==
    IF e # NilErr /\ ~IsNotFoundError(e)
    THEN [state |-> tfState[t], diags |-> <<Diag("Client Error", "")>>]
    ELSE [state |-> Removed, diags |-> <<>>]

\* Delete of the resource of type t: req.State.Get, one delete call on the
\* client, then DeleteOutcome.
Delete(t) ==
    /\ ~client.nil
    /\ handled.seq \in 1..(MaxHandlers - 1)
    /\ ~tfState[t].removed
    /\ \E e \in DeleteErrors \cup {NilErr} :
          /\ tfState' = [tfState EXCEPT ![t] = DeleteOutcome(t, e).state]
          /\ diags' = DeleteOutcome(t, e).diags
          /\ handled' = [seq |-> handled.seq + 1, op |-> "Delete", type |-> t, err |-> e]
    /\ apiCalls' = apiCalls + 1
    /\ UNCHANGED <<callVars, client, otherCallVars, env, config, version, pureVars, monitorRes,
                   systemRes>>

MonitorDelete == Delete("monitor")

AlertDelete == Delete("alert")

SystemDelete == Delete("system")

ReportDelete == Delete("report")

NextProvider ==
    \/ Configure
    \/ MonitorRead
    \/ AlertRead
    \/ SystemRead
    \/ ReportRead
    \/ ReportUpdate
    \/ MonitorDelete
    \/ AlertDelete
    \/ SystemDelete
    \/ ReportDelete

SpecProvider == InitProvider /\ [][NextProvider]_vars

----------------------------------------------------------------------------
(* SystemResource.Update and the membership of the system on the API *)

\* The monitors a system can hold
SysMonitors == {"m1", "m2", "m3"}

\* A types.Set of strings: null, or known with its elements in stored order
SetNull == [state |-> "null", elems |-> <<>>]

SetValue(elems) == [state |-> "known", elems |-> elems]

\* Position of a monitor ID in the order of the strings
Rank(id) == CASE id = "m1" -> 1 [] id = "m2" -> 2 [] OTHER -> 3

\* What a set of monitor IDs holds: Terraform hands the elements of a set of
\* strings over in ascending order and without repetition, and the state
\* written from a plan keeps that order.
SetElems ==
    {q \in UNION {[1..n -> SysMonitors] : n \in 0..Cardinality(SysMonitors)} :
        \A i, j \in DOMAIN q : i < j => Rank(q[i]) < Rank(q[j])}

\* s.ElementsAs(ctx, &ids, false): a null set gives the nil slice.
ElementsAs(setv) == IF setv.state = "known" THEN setv.elems ELSE <<>>

Elements(q) == {q[i] : i \in DOMAIN q}

\* Variant: every element of a is returned.
differenceKeepingCommon(a, b) == a

\* difference(a, b): the elements of a that are not in b, in the order of a
difference(a, b) == SelectSeq(a, LAMBDA v : v \notin Elements(b))

\* A call on the client with the monitor IDs it carries
APICall(op, ids) == [op |-> op, ids |-> ids]

\* The calls Update makes when none fails, for plan newIDs and state oldIDs
UpdateCalls(newIDs, oldIDs) ==
    LET toAdd    == difference(newIDs, oldIDs)
        toRemove == difference(oldIDs, newIDs)
    IN  <<APICall("UpdateSystem", <<>>)>>
          \o (IF Len(toAdd) > 0 THEN <<APICall("AddMonitorsToSystem", toAdd)>> ELSE <<>>)
          \o (IF Len(toRemove) > 0 THEN <<APICall("RemoveMonitorsFromSystem", toRemove)>>
              ELSE <<>>)
          \o <<APICall("GetSystem", <<>>)>>

\* What a call that took effect does to the membership on the API
Served(mem, call) ==
    CASE call.op = "AddMonitorsToSystem" -> mem \cup Elements(call.ids)
      [] call.op = "RemoveMonitorsFromSystem" -> mem \ Elements(call.ids)
      [] OTHER -> mem

RECURSIVE ServedAll(_, _, _)
ServedAll(mem, calls, n) ==
    IF n = 0 THEN mem ELSE Served(ServedAll(mem, calls, n - 1), calls[n])

\* How a failing call of Update ends: with a status the API refuses with
\* (the request took no effect), or with a failure of the transport on the
\* last attempt, the API having served the request or not.
SysCallFailures ==
    { [err |-> APIErrorOf(1, 400, <<>>), served |-> FALSE],
      [err |-> TransportErr(maxRetries, "conn"), served |-> FALSE],
      [err |-> TransportErr(maxRetries, "conn"), served |-> TRUE] }

\* No call fails.
NoFailure == [at |-> 0, err |-> NilErr, served |-> TRUE]

\* Variant: the state is written whether or not the calls succeeded.
StateAfterUpdateAlwaysWritten(prior, newIDs, err) == SetValue(newIDs)

\* monitor_ids of the state Update leaves: on an error the handler returns
\* before resp.State.Set and the prior state stays; else data, read from the
\* plan, is stored, its monitor_ids replaced by the planned IDs when there
\* are any.
StateAfterUpdate(prior, newIDs, err) ==
    IF err # NilErr THEN prior
    ELSE IF Len(newIDs) > 0 THEN SetValue(newIDs) ELSE SetValue(<<>>)

\* The system is in the state with some monitor_ids (none after an import),
\* the API holds some membership; the provider is configured.
InitSystem ==
    /\ CallAtRest
    /\ client = TheClient
    /\ OneCall
    /\ env = [ACKACK_API_KEY |-> "envkey", ACKACK_ENDPOINT |-> ""]
    /\ config = [api_key |-> Null, endpoint |-> Null]
    /\ version = "dev"
    /\ diags = <<>>
    /\ tfState = [t \in ResourceTypes |-> Tracked("old", "prev")]
    /\ apiCalls = 0
    /\ handled = [seq |-> 1, op |-> "Configure", type |-> "", err |-> NilErr]
    /\ monitorRes = NoMonitorResource
    /\ \E st \in {SetNull} \cup {SetValue(q) : q \in SetElems}, mem \in SUBSET SysMonitors :
          systemRes = [plan |-> <<>>, monitorIDs |-> st, members |-> mem, calls |-> <<>>]
    /\ PureAtRest

\* SystemResource.Update for a plan with monitor_ids p: the calls run in
\* order up to the first that fails, if one does.
SystemUpdate ==
    /\ ~client.nil
    /\ handled.seq \in 1..(MaxHandlers - 1)
    /\ ~tfState["system"].removed
    /\ \E p \in SetElems :
       LET oldIDs == ElementsAs(systemRes.monitorIDs)
           all    == UpdateCalls(p, oldIDs)
       IN  \E f \in {NoFailure} \cup {[at |-> i, err |-> x.err, served |-> x.served] :
                                         i \in 1..Len(all), x \in SysCallFailures} :
              LET err     == f.err
                  made    == IF f.at = 0 THEN all ELSE SubSeq(all, 1, f.at)
                  nServed == IF f.served THEN Len(made) ELSE Len(made) - 1
              IN  /\ systemRes' = [plan |-> p,
                                   monitorIDs |-> StateAfterUpdate(systemRes.monitorIDs, p, err),
                                   members |-> ServedAll(systemRes.members, made, nServed),
                                   calls |-> made]
                  /\ diags' = IF err # NilErr THEN <<Diag("Client Error", "")>> ELSE <<>>
                  /\ tfState' = IF err # NilErr THEN tfState
                                ELSE [tfState EXCEPT !["system"] = Tracked("old", "web")]
                  /\ handled' = [seq |-> handled.seq + 1, op |-> "Update", type |-> "system",
                                 err |-> err]
                  /\ apiCalls' = apiCalls + Len(made)
    /\ UNCHANGED <<callVars, client, otherCallVars, env, config, version, pureVars, monitorRes>>

NextSystem == SystemUpdate

SpecSystem == InitSystem /\ [][NextSystem]_vars

----------------------------------------------------------------------------
(* MonitorResource: Create, ImportState and Read over the attributes *)

\* types.Int64Null(), an Int64 that is unknown in the plan, types.Int64Value(n)
Int64Null == [state |-> "null", value |-> 0]

Int64Unknown == [state |-> "unknown", value |-> 0]

Int64Value(n) == [state |-> "known", value |-> n]

\* The attributes followed: one of each way updateModelFromResponse treats an
\* attribute, and the computed ones an import verification leaves out.
MonitorAttrs ==
    {"id", "name", "retries", "general_region", "url", "port", "created_at",
     "status", "last_checked"}

\* The timestamps the API sends: nanosecond precision, a short fraction, and
\* a text that is no RFC 3339 time.
Timestamps ==
    {"2026-01-01T00:00:00.123456789Z", "2026-01-01T00:00:00.5Z", "yesterday"}

\* normalizeTimestamp: a time that parses is truncated to the microsecond and
\* printed without trailing zeros of the fraction; any other text is returned
\* as it is.
normalizeTimestamp(ts) ==
    CASE ts = "2026-01-01T00:00:00.123456789Z" -> "2026-01-01T00:00:00.123456Z"
      [] ts = "2026-01-01T00:00:00.5Z" -> "2026-01-01T00:00:00.5Z"
      [] OTHER -> ts

\* The plans of a monitor: name is required; retries and general_region are
\* optional and computed (unknown when the configuration leaves them out);
\* url and port are optional only (null when left out) and carry no
\* validator, so the configuration may set them to "" and 0; the computed
\* attributes are unknown.
MonitorPlans ==
    [id : {Unknown},
     name : {StringValue("web")},
     retries : {Int64Unknown, Int64Value(0), Int64Value(2)},
     general_region : {Unknown, StringValue(""), StringValue("eu")},
     url : {Null, StringValue(""), StringValue("https://example.com")},
     port : {Int64Null, Int64Value(0), Int64Value(443)},
     created_at : {Unknown},
     status : {Unknown},
     last_checked : {Unknown}]

\* buildCreateRequest: a field is filled from the plan unless the plan's
\* value is null; an unknown value reads as the zero value.
buildCreateRequest(data) ==
    [name           |-> data.name.value,
     retries        |-> IF data.retries.state # "null" THEN data.retries.value ELSE 0,
     general_region |-> IF data.general_region.state # "null"
                        THEN data.general_region.value ELSE "",
     url            |-> IF data.url.state # "null" THEN data.url.value ELSE "",
     port           |-> IF data.port.state # "null" THEN data.port.value ELSE 0]

\* The monitors the API may answer a create request with: it keeps what the
\* request carries; a zero-valued field is left out of the JSON body and the
\* API may fill retries and general_region with its defaults.
MonitorsCreated(req) ==
    [id : {"mon-1"},
     name : {req.name},
     retries : IF req.retries = 0 THEN {0, 3} ELSE {req.retries},
     general_region : IF req.general_region = "" THEN {"", "us"} ELSE {req.general_region},
     url : {req.url},
     port : {req.port},
     created_at : Timestamps,
     status : {"pending", "up"},
     last_checked : {"", "2026-01-01T00:00:00.5Z"}]

\* The monitors GetMonitor may decode later on: the monitor as created, with
\* the attributes the checks of the service move.
MonitorsRead(m) ==
    {[m EXCEPT !.status = s, !.last_checked = l] :
        s \in {"pending", "up"}, l \in {"", "2026-01-01T00:00:00.5Z"}}

\* updateModelFromResponse: data after the call
updateModelFromResponse(data, monitor) ==
    [id             |-> StringValue(monitor.id),
     name           |-> StringValue(monitor.name),
     retries        |-> Int64Value(monitor.retries),
     status         |-> StringValue(monitor.status),
     created_at     |-> StringValue(normalizeTimestamp(monitor.created_at)),
     general_region |-> IF monitor.general_region # ""
                        THEN StringValue(monitor.general_region)
                        ELSE IF data.general_region.state = "unknown"
                             THEN Null ELSE data.general_region,
     last_checked   |-> IF monitor.last_checked # ""
                        THEN StringValue(normalizeTimestamp(monitor.last_checked))
                        ELSE Null,
     url            |-> IF monitor.url # "" THEN StringValue(monitor.url) ELSE data.url,
     port           |-> IF monitor.port # 0 THEN Int64Value(monitor.port) ELSE data.port]

\* resource.ImportStatePassthroughID: the state holds the id and nothing else
ImportedState(id) ==
    [id             |-> StringValue(id),
     name           |-> Null,
     retries        |-> Int64Null,
     status         |-> Null,
     created_at     |-> Null,
     general_region |-> Null,
     last_checked   |-> Null,
     url            |-> Null,
     port           |-> Int64Null]

\* The provider is configured; a monitor is planned and is not on the API.
\* plan is the planned monitor, api the monitor the API holds, state the
\* monitor in the Terraform state, created the state that Create stored
\* (history); each of the last three is empty or holds one element.
InitMonitor ==
    /\ CallAtRest
    /\ client = TheClient
    /\ OneCall
    /\ env = [ACKACK_API_KEY |-> "envkey", ACKACK_ENDPOINT |-> ""]
    /\ config = [api_key |-> Null, endpoint |-> Null]
    /\ version = "dev"
    /\ diags = <<>>
    /\ tfState = [t \in ResourceTypes |-> Removed]
    /\ apiCalls = 0
    /\ handled = [seq |-> 1, op |-> "Configure", type |-> "", err |-> NilErr]
    /\ \E p \in MonitorPlans :
          monitorRes = [plan |-> p, api |-> <<>>, state |-> <<>>, created |-> <<>>]
    /\ systemRes = NoSystemResource
    /\ PureAtRest

\* MonitorResource.Create: the plan is read, CreateMonitor is called, and on
\* success the plan updated from the response is stored.
MonitorCreate ==
    /\ ~client.nil
    /\ handled.op = "Configure"
    /\ monitorRes.state = <<>>
    /\ \E e \in ReadErrors \cup {NilErr} :
          /\ \/ /\ e # NilErr
                /\ monitorRes' = monitorRes
                /\ diags' = <<Diag("Client Error", "")>>
                /\ tfState' = tfState
             \/ /\ e = NilErr
                /\ \E monitor \in MonitorsCreated(buildCreateRequest(monitorRes.plan)) :
                      LET data == updateModelFromResponse(monitorRes.plan, monitor)
                      IN  /\ monitorRes' = [monitorRes EXCEPT !.api = <<monitor>>,
                                                              !.state = <<data>>,
                                                              !.created = <<data>>]
                          /\ tfState' = [tfState EXCEPT !["monitor"] =
                                            Tracked(data.id.value, data.name.value)]
                /\ diags' = <<>>
          /\ handled' = [seq |-> handled.seq + 1, op |-> "Create", type |-> "monitor",
                         err |-> e]
    /\ apiCalls' = apiCalls + 1
    /\ UNCHANGED <<callVars, client, otherCallVars, env, config, version, pureVars, systemRes>>

\* MonitorResource.ImportState of the monitor that was created, into a state
\* that does not hold it: no call on the API.
MonitorImportState ==
    /\ handled.op = "Create"
    /\ handled.err = NilErr
    /\ monitorRes' = [monitorRes EXCEPT !.state = <<ImportedState(monitorRes.api[1].id)>>]
    /\ tfState' = [tfState EXCEPT !["monitor"] = Tracked(monitorRes.api[1].id, "")]
    /\ diags' = <<>>
    /\ handled' = [seq |-> handled.seq + 1, op |-> "ImportState", type |-> "monitor",
                   err |-> NilErr]
    /\ UNCHANGED <<callVars, client, otherCallVars, env, config, version, apiCalls, pureVars,
                   systemRes>>

\* MonitorResource.Read of the imported state: GetMonitor by the id of the
\* state; a not-found error removes the resource, any other error leaves the
\* state and adds a diagnostic, success stores the state updated from the
\* response.
MonitorReadImported ==
    /\ ~client.nil
    /\ handled.op = "ImportState"
    /\ \E e \in ReadErrors \cup {NilErr} :
          /\ \/ /\ e # NilErr
                /\ IsNotFoundError(e)
                /\ monitorRes' = [monitorRes EXCEPT !.state = <<>>]
                /\ tfState' = [tfState EXCEPT !["monitor"] = Removed]
                /\ diags' = <<>>
             \/ /\ e # NilErr
                /\ ~IsNotFoundError(e)
                /\ monitorRes' = monitorRes
                /\ tfState' = tfState
                /\ diags' = <<Diag("Client Error", "")>>
             \/ /\ e = NilErr
                /\ \E monitor \in MonitorsRead(monitorRes.api[1]) :
                      LET data == updateModelFromResponse(monitorRes.state[1], monitor)
                      IN  /\ monitorRes' = [monitorRes EXCEPT !.state = <<data>>]
                          /\ tfState' = [tfState EXCEPT !["monitor"] =
                                            Tracked(data.id.value, data.name.value)]
                /\ diags' = <<>>
          /\ handled' = [seq |-> handled.seq + 1, op |-> "Read", type |-> "monitor",
                         err |-> e]
    /\ apiCalls' = apiCalls + 1
    /\ UNCHANGED <<callVars, client, otherCallVars, env, config, version, pureVars, systemRes>>

NextMonitor ==
    \/ MonitorCreate
    \/ MonitorImportState
    \/ MonitorReadImported

SpecMonitor == InitMonitor /\ [][NextMonitor]_vars

----------------------------------------------------------------------------
(* Vocabulary of the properties *)

Last(seq) == seq[Len(seq)]

\* Positions of the Do calls in the history, and how many attempts were issued.
DoIndices == {i \in DOMAIN log : log[i].ev = "do"}

Issued == Cardinality(DoIndices)

\* The timers started since the most recent Do call, in order.
TimersSinceLastDo ==
    LET from == CHOOSE i \in DoIndices : \A j \in DoIndices : j <= i
    IN  SubSeq(log, from + 1, Len(log))

\* An attempt "receives a response with status s" when Do and io.ReadAll both
\* returned without error, so that the status is there to be classified.
Received(i) == outcomes[i].kind = "response"

SuccessStatus(st) == st \in 200..299

ClientErrorStatus(st) == st \in 400..499 /\ st # 429

RetryableStatus(st) == st \notin 200..299 /\ st \notin 400..499

\* strconv.Itoa: the decimal numeral of an integer, as a character sequence.
DigitChar(d) ==
    CASE d = 0 -> "0" [] d = 1 -> "1" [] d = 2 -> "2" [] d = 3 -> "3" [] d = 4 -> "4"
      [] d = 5 -> "5" [] d = 6 -> "6" [] d = 7 -> "7" [] d = 8 -> "8" [] d = 9 -> "9"

RECURSIVE Numeral(_)
Numeral(n) ==
    IF n < 10 THEN <<DigitChar(n)>> ELSE Append(Numeral(n \div 10), DigitChar(n % 10))

Itoa(n) == IF n < 0 THEN <<"-">> \o Numeral(0 - n) ELSE Numeral(n)

RetryAfterRange == (0 - 250)..250

ItoaTable == [n \in RetryAfterRange |-> Itoa(n)]

\* A header value that is no integer: absent, a bare sign, or with a character
\* that is neither a digit nor a leading sign.
NotAnInteger(h) ==
    \/ h = <<>>
    \/ h \in {<<"-">>, <<"+">>}
    \/ \E i \in DOMAIN h : h[i] \notin Digits /\ ~(i = 1 /\ h[i] \in {"-", "+"})

\* Bodies of the model that are well-formed JSON objects whose id and name,
\* when present, are strings; and the fields each of them sets.
DecodableBodies ==
    { <<"{", "}">>,
      <<"{", "id", ":", "m1", "}">>,
      <<"{", "id", ":", "m1", ",", "name", ":", "web", "}">> }

FieldsSetBy(b) ==
    CASE b = <<"{", "id", ":", "m1", "}">> -> {<<"id", "m1">>}
      [] b = <<"{", "id", ":", "m1", ",", "name", ":", "web", "}">> ->
             {<<"id", "m1">>, <<"name", "web">>}
      [] OTHER -> {}

\* Bodies of the model that json.Unmarshal rejects for the destination:
\* truncated JSON, HTML, and a number where the string id is expected.
UndecodableBodies ==
    { <<"{", "id", ":">>,
      <<"<html>">>,
      <<"{", "id", ":", "#7", ",", "name", ":", "web", "}">> }

----------------------------------------------------------------------------
(* C1: a logical call issues at most 3 HTTP attempts, whatever the outcomes,   *)
(* and the attempts are strictly sequential: they are numbered in the order    *)
(* they are issued, at most one is in flight, and every earlier attempt has    *)
(* completed when the next one is issued.                                      *)
C1_AtMostThreeSequentialAttempts ==
    /\ Issued <= 3
    /\ inFlight \in {0, 1}
    /\ \A i \in DoIndices : log[i].n = Cardinality({j \in DoIndices : j <= i})
    /\ Len(outcomes) = Issued - inFlight

\* Three attempts were needed: a transport failure, a 429, a 500.
C1_Witness ==
    /\ pc = "done"
    /\ Issued = 3
    /\ outcomes = <<Outcome("transport", 0), Outcome("response", 429),
                    Outcome("response", 500)>>

\* The last attempt received a status in [200,300) whose body, when it had to
\* be decoded, is one that decodes.
SuccessfulAttempt ==
    /\ Len(outcomes) > 0
    /\ Received(Len(outcomes))
    /\ SuccessStatus(Last(outcomes).status)
    /\ (hasResult /\ resp.body # <<>>) => resp.body \in DecodableBodies

(* C2: the call returns nil exactly when its last attempt received a status in *)
(* [200,300) and, with a destination and a non-empty body, the body decoded;   *)
(* every other way of ending (attempts exhausted, client error, cancellation,  *)
(* serialization failure) returns a non-nil error.                             *)
C2_NilOnlyOnSuccess ==
    pc = "done" => (ret = NilErr <=> SuccessfulAttempt)

\* All three attempts failed with retryable outcomes and the call reports the last.
C2_Witness ==
    /\ pc = "done"
    /\ Len(outcomes) = 3
    /\ ret.kind = "api"
    /\ ret.status = 503

(* C3: an attempt that receives a status in [400,500) other than 429 ends the  *)
(* call at once with an APIError of exactly that status: it is the last        *)
(* attempt issued and no timer is started after it.                            *)
C3_ClientErrorEndsCall ==
    \A i \in DOMAIN outcomes :
        (Received(i) /\ ClientErrorStatus(outcomes[i].status)) =>
            /\ pc = "done"
            /\ i = Len(outcomes)
            /\ Issued = i
            /\ inFlight = 0
            /\ Last(log) = Event("do", i, 0)
            /\ ret.kind = "api"
            /\ ret.status = outcomes[i].status

\* A 400 on the first attempt: one attempt, no wait.
C3_Witness ==
    /\ pc = "done"
    /\ outcomes = <<Outcome("response", 400)>>
    /\ log = <<Event("do", 1, 0)>>
    /\ ret.status = 400

(* C4: an attempt that receives a status in [200,300) is the last attempt of   *)
(* the call: the call has ended and no further request was issued.             *)
C4_SuccessEndsCall ==
    \A i \in DOMAIN outcomes :
        (Received(i) /\ SuccessStatus(outcomes[i].status)) =>
            /\ pc = "done"
            /\ i = Len(outcomes)
            /\ Issued = i
            /\ inFlight = 0

\* A POST that failed in transport and was then answered 201.
C4_Witness ==
    /\ pc = "done"
    /\ method = "POST"
    /\ outcomes = <<Outcome("transport", 0), Outcome("response", 201)>>
    /\ Issued = 2

(* C5: after an attempt with a status in [200,300): with a destination and a   *)
(* non-empty body, a nil return means every field the body sets holds the      *)
(* body's value and the others are as the caller left them; with an empty body *)
(* or no destination the destination is unchanged and the call returns nil.    *)
C5_DestinationDecoded ==
    (pc = "done" /\ Len(outcomes) > 0 /\ Received(Len(outcomes))
                 /\ SuccessStatus(Last(outcomes).status)) =>
        /\ (hasResult /\ resp.body # <<>> /\ ret = NilErr) =>
              \A f \in DOMAIN result :
                  IF \E v \in StringToks : <<f, v>> \in FieldsSetBy(resp.body)
                  THEN <<f, result[f]>> \in FieldsSetBy(resp.body)
                  ELSE result[f] = result0[f]
        /\ (~hasResult \/ resp.body = <<>>) => (result = result0 /\ ret = NilErr)

\* A body that sets id only, decoded into a destination that already held data.
C5_Witness ==
    /\ pc = "done"
    /\ ret = NilErr
    /\ hasResult
    /\ resp.body = <<"{", "id", ":", "m1", "}">>
    /\ result0 = [id |-> "old", name |-> "prev"]
    /\ result = [id |-> "m1", name |-> "prev"]

(* C6: a status in [200,300) with a non-empty body that does not decode into   *)
(* the destination ends the call at once with a non-nil decode error, however  *)
(* many attempts remain.                                                       *)
C6_DecodeFailureIsTerminal ==
    (Len(outcomes) > 0 /\ Received(Len(outcomes)) /\ SuccessStatus(Last(outcomes).status)
        /\ hasResult /\ resp.body \in UndecodableBodies) =>
        /\ pc = "done"
        /\ ret.kind = "decode"
        /\ ret # NilErr
        /\ Issued = Len(outcomes)
        /\ inFlight = 0

\* The first attempt is answered 200 with an HTML page: two attempts remain unused.
C6_Witness ==
    /\ pc = "done"
    /\ outcomes = <<Outcome("response", 200)>>
    /\ hasResult
    /\ resp.body = <<"<html>">>
    /\ ret.kind = "decode"

(* C7: when every attempt fails in transport and the context is never          *)
(* cancelled, the call makes exactly 3 attempts with exactly 2 backoff waits,  *)
(* of retryBaseDelay*1 before attempt 2 and retryBaseDelay*2 before attempt 3, *)
(* and returns the transport error of the third attempt.                       *)
C7_TransportExhaustion ==
    (pc = "done" /\ ~ctxDone /\ Len(outcomes) > 0
        /\ \A i \in DOMAIN outcomes : outcomes[i].kind = "transport") =>
        /\ log = <<Event("do", 1, 0), Event("backoff", 1, retryBaseDelay * 1),
                   Event("do", 2, 0), Event("backoff", 2, retryBaseDelay * 2),
                   Event("do", 3, 0)>>
        /\ fired = 2
        /\ ret.kind = "transport"
        /\ ret.attempt = 3

C7_Witness ==
    /\ pc = "done"
    /\ ~ctxDone
    /\ outcomes = <<Outcome("transport", 0), Outcome("transport", 0),
                    Outcome("transport", 0)>>

(* C8: a received status outside [200,300) and [400,500) is retryable: it ends *)
(* the call only as the third attempt, and then the call returns the APIError  *)
(* of that attempt with its status; after an earlier attempt the call can end  *)
(* only by cancellation of the wait that follows.                              *)
C8_OtherStatusRetryable ==
    (pc = "done" /\ Len(outcomes) > 0 /\ Received(Len(outcomes))
                 /\ RetryableStatus(Last(outcomes).status)) =>
        IF Len(outcomes) = 3
        THEN /\ ret.kind = "api"
             /\ ret.status = Last(outcomes).status
             /\ ret.attempt = 3
        ELSE ret = CtxErr

\* 101, 304 and 500 in turn: the call returns the third.
C8_Witness ==
    /\ pc = "done"
    /\ outcomes = <<Outcome("response", 101), Outcome("response", 304),
                    Outcome("response", 500)>>
    /\ ret.kind = "api"
    /\ ret.status = 500

(* C9, as stated: after a 429 with Retry-After: N, when the next attempt is    *)
(* about to be issued, the only wait since the 429 is the rate-limit wait of N *)
(* seconds; the linear backoff is not applied.                                 *)
C9_Original_RateLimitWaitOnly ==
    (pc = "send" /\ attempt > 0 /\ resp.attempt = attempt /\ resp.readOK
                 /\ resp.status = 429) =>
        \A n \in RetryAfterRange :
            resp.header = ItoaTable[n] =>
                TimersSinceLastDo = <<Event("ratelimit", attempt, n)>>

(* C9, amended: after a 429 with Retry-After: N, when the next attempt is      *)
(* about to be issued, the waits since the 429 are the rate-limit wait of N    *)
(* seconds followed by the linear backoff of retryBaseDelay*attemptIndex.      *)
C9_RateLimitWaitThenBackoff ==
    (pc = "send" /\ attempt > 0 /\ resp.attempt = attempt /\ resp.readOK
                 /\ resp.status = 429) =>
        \A n \in RetryAfterRange :
            resp.header = ItoaTable[n] =>
                TimersSinceLastDo = <<Event("ratelimit", attempt, n),
                                      Event("backoff", attempt, retryBaseDelay * attempt)>>

\* The second attempt was answered 429 with Retry-After: 2; the third is due.
C9_Witness ==
    /\ pc = "send"
    /\ attempt = 2
    /\ resp.attempt = 2
    /\ resp.status = 429
    /\ resp.header = <<"2">>

(* C10: the timer of the rate-limit wait is set to 60 seconds when the         *)
(* Retry-After header is absent or no integer, and to N seconds when it is     *)
(* the numeral of the integer N.                                               *)
C10_RateLimitWaitDuration ==
    pc = "ratelimit" =>
        /\ resp.status = 429
        /\ Last(log).ev = "ratelimit"
        /\ NotAnInteger(resp.header) => Last(log).d = 60
        /\ \A n \in RetryAfterRange : resp.header = ItoaTable[n] => Last(log).d = n
        /\ NotAnInteger(resp.header) \/ \E n \in RetryAfterRange : resp.header = ItoaTable[n]

\* A header that is no integer ("2x") and the fallback wait of 60 seconds.
C10_Witness ==
    /\ pc = "ratelimit"
    /\ resp.header = <<"2", "x">>
    /\ Last(log) = Event("ratelimit", 1, 60)

----------------------------------------------------------------------------
\* Every attempt so far received status 429.
AllRateLimited ==
    outcomes # <<>> /\ \A i \in DOMAIN outcomes : outcomes[i] = Outcome("response", 429)

\* What holds of rate-limit errors in every state.
RateLimitedToTheEnd ==
    /\ (pc = "done" /\ ~ctxDone /\ AllRateLimited)
        => /\ Issued = maxRetries
           /\ Len(outcomes) = maxRetries
           /\ IsAPIError(ret) /\ ret.status = 429 /\ ret.attempt = maxRetries
           /\ IsRateLimitError(ret)
    /\ (pc = "done" /\ IsRateLimitError(ret))
        => Issued = maxRetries /\ Last(outcomes) = Outcome("response", 429)
    /\ (pc # "done" /\ AllRateLimited) => ret = NilErr

\* C11: when every attempt of a call receives status 429 and the context is
\* never cancelled, the call ends after exactly 3 attempts with the APIError
\* of status 429 of the third attempt, for which IsRateLimitError is true;
\* a returned rate-limit error always comes from the third attempt; and the
\* call does return unless it is cancelled or receives something else.
C11_AllRateLimited ==
    /\ []RateLimitedToTheEnd
    /\ (AllRateLimited /\ ~ctxDone) ~> (pc = "done" \/ ctxDone \/ ~AllRateLimited)

C11_Witness ==
    /\ pc = "done" /\ ~ctxDone
    /\ outcomes = <<Outcome("response", 429), Outcome("response", 429),
                    Outcome("response", 429)>>
    /\ IsRateLimitError(ret)

----------------------------------------------------------------------------
\* The call is suspended in one of its two waits, the timer still pending.
Suspended == pc \in {"backoff", "ratelimit"} /\ Last(log).d > 0

\* A step taken beside a done context out of a wait returns the context's
\* error and nothing else; a call that has returned does nothing more.
CancelledWaitStep ==
    /\ (Suspended /\ ctxDone)
        => /\ pc' = "done" /\ ret' = CtxErr
           /\ fired' = fired /\ log' = log /\ inFlight' = inFlight
    /\ pc = "done" => UNCHANGED <<ret, log, fired, inFlight>>

\* C12: while the call is suspended in the backoff wait or in the rate-limit
\* wait (its timer, of positive duration, still pending) and the context is
\* done, the only step the call takes is to return the context's error, and
\* it takes it; the timer does not complete, no Do call follows, and a call
\* that has returned does nothing more.
C12_WaitsAreCancellable ==
    /\ [][CancelledWaitStep]_vars
    /\ (Suspended /\ ctxDone) ~> (pc = "done" /\ ret = CtxErr /\ inFlight = 0)

C12_Witness ==
    /\ pc = "done" /\ ret = CtxErr
    /\ log = <<Event("do", 1, 0), Event("backoff", 1, BackoffDelay(1)), Event("do", 2, 0),
               Event("ratelimit", 2, defaultRetryAfter)>>
    /\ fired = 1

----------------------------------------------------------------------------
----------------------------------------------------------------------------
\* The last attempt went out and Do failed with the context's error: the
\* context ended while the request was in flight.
CancelledInFlight ==
    /\ outcomes # <<>> /\ Last(outcomes) = Outcome("transport", 0)
    /\ lastErr = TransportErr(Len(outcomes), "ctx")

\* C14: a call whose attempt was cancelled in flight returns the context's
\* error, whichever attempt it was, and makes no further attempt.
C14_InFlightCancellationPropagated ==
    (pc = "done" /\ CancelledInFlight) => (ret = CtxErr /\ Issued = Len(outcomes))

----------------------------------------------------------------------------
\* C15: NewClient with an empty API key returns an error and a nil client,
\* whatever the endpoint and the version; with a non-empty key it returns a
\* client carrying that key and no error; no request is made in either case.
C15_NewClientRequiresKey ==
    built.called =>
        /\ built.apiKey = "" => (built.err # NilErr /\ built.client = NoClient)
        /\ built.apiKey # "" => /\ built.err = NilErr
                                /\ ~built.client.nil
                                /\ built.client.APIKey = built.apiKey
        /\ log = <<>> /\ inFlight = 0 /\ apiCalls = 0

C15_Witness ==
    /\ built.called
    /\ built.apiKey = "" /\ built.endpoint = "http://cfg" /\ built.version = "1.0"
    /\ built.err = ConfigErr /\ built.client.nil

----------------------------------------------------------------------------
\* The error is an APIError with this status code.
IsAPIErrorWithStatus(e, st) == e.kind = "api" /\ e.status = st

\* The predicates that answered true
TrueAnswers ==
    {f \in {"notFound", "rateLimit", "unauthorized", "forbidden", "badRequest"} : classified[f]}

\* C16: each of the five predicates is true exactly when the error is an
\* APIError with its status code (404, 429, 401, 403, 400); at most one is
\* true of any error; of an APIError with status 404 only IsNotFoundError is
\* true; of cancellation, transport and decode errors all five are false.
C16_PredicatesByStatus ==
    classified.called =>
        /\ classified.notFound = IsAPIErrorWithStatus(classified.err, 404)
        /\ classified.rateLimit = IsAPIErrorWithStatus(classified.err, 429)
        /\ classified.unauthorized = IsAPIErrorWithStatus(classified.err, 401)
        /\ classified.forbidden = IsAPIErrorWithStatus(classified.err, 403)
        /\ classified.badRequest = IsAPIErrorWithStatus(classified.err, 400)
        /\ Cardinality(TrueAnswers) <= 1
        /\ IsAPIErrorWithStatus(classified.err, 404) => TrueAnswers = {"notFound"}
        /\ classified.err.kind \in {"ctx", "transport", "decode"} => TrueAnswers = {}

C16_Witness ==
    /\ classified.called
    /\ classified.err = APIErrorOf(1, 404, <<"{", "message", ":", "oops", "}">>)
    /\ TrueAnswers = {"notFound"}

----------------------------------------------------------------------------
\* A handler has just run: this step is its whole execution.
HandlerRan(op) == handled'.seq = handled.seq + 1 /\ handled'.op = op

\* What a Read step does, by the error its Get call returned
ReadStep ==
    HandlerRan("Read") =>
        /\ handled'.type \in ResourceTypes
        /\ IsAPIErrorWithStatus(handled'.err, 404)
              => (tfState'[handled'.type] = Removed /\ diags' = <<>>)
        /\ (handled'.err # NilErr /\ ~IsAPIErrorWithStatus(handled'.err, 404))
              => (tfState' = tfState /\ Len(diags') = 1 /\ diags'[1].severity = "error")
        /\ \A u \in ResourceTypes \ {handled'.type} : tfState'[u] = tfState[u]

\* C18: Read of a monitor, an alert, a system or a report removes the
\* resource from the state and adds no diagnostic when the client returns an
\* APIError with status 404; on any other error of the client it adds one
\* error diagnostic and leaves the state as it was.
C18_ReadDropsNotFound == [][ReadStep]_vars

C18_Witness ==
    /\ handled.op = "Read" /\ handled.type = "system"
    /\ IsAPIErrorWithStatus(handled.err, 404)
    /\ tfState["system"] = Removed
    /\ tfState["monitor"] = Tracked("old", "prev")
    /\ diags = <<>>

----------------------------------------------------------------------------
\* What an Update step of the report resource does
ReportUpdateStep ==
    (HandlerRan("Update") /\ handled'.type = "report") =>
        /\ diags' = <<Diag("Update Not Supported", "")>>
        /\ apiCalls' = apiCalls
        /\ tfState' = tfState
        /\ client' = client

\* C19: Update of the report resource adds the error diagnostic "Update Not
\* Supported", makes no call on the client and leaves the state unchanged.
C19_ReportUpdateRefused == [][ReportUpdateStep]_vars

C19_Witness ==
    /\ handled.op = "Update" /\ handled.type = "report"
    /\ diags = <<Diag("Update Not Supported", "")>>
    /\ apiCalls = 1
    /\ tfState["report"] = Tracked("old", "web")

----------------------------------------------------------------------------
\* Configure has run.
Configured == handled.seq >= 1

\* The configuration value when it is not null (empty unless known), else
\* the environment variable
ConfigElseEnv(attr, variable) ==
    IF config[attr].state # "null"
    THEN (IF config[attr].state = "known" THEN config[attr].value ELSE "")
    ELSE env[variable]

\* The client carries the key and the endpoint resolved that way; there is a
\* client exactly when the key is not empty.
ResolutionFollowed ==
    /\ client.nil = (ConfigElseEnv("api_key", "ACKACK_API_KEY") = "")
    /\ ~client.nil =>
          /\ client.APIKey = ConfigElseEnv("api_key", "ACKACK_API_KEY")
          /\ client.BaseURL = IF ConfigElseEnv("endpoint", "ACKACK_ENDPOINT") = ""
                              THEN defaultBaseURL
                              ELSE ConfigElseEnv("endpoint", "ACKACK_ENDPOINT")

\* An empty resolved key gives the error on api_key and no client.
EmptyKeyRefused ==
    ConfigElseEnv("api_key", "ACKACK_API_KEY") = ""
        => (client.nil /\ diags = <<Diag("Missing ackack API Key", "api_key")>>)

\* C20 as stated: the key is the configuration's api_key when non-null, else
\* ACKACK_API_KEY (likewise the endpoint); a non-empty ACKACK_API_KEY always
\* gives a client; an empty resolved key gives the error on api_key and no
\* client.
C20_Original_EnvKeyAlwaysSuffices ==
    Configured =>
        /\ ResolutionFollowed
        /\ env.ACKACK_API_KEY # "" => ~client.nil
        /\ EmptyKeyRefused

\* C20, amended: a non-empty ACKACK_API_KEY gives a client, with that key,
\* when the configuration's api_key is null; a non-null api_key takes its
\* place, also when it is empty or unknown.
C20_EnvKeyUnlessConfigured ==
    Configured =>
        /\ ResolutionFollowed
        /\ (env.ACKACK_API_KEY # "" /\ config.api_key = Null)
              => (~client.nil /\ client.APIKey = env.ACKACK_API_KEY)
        /\ (env.ACKACK_API_KEY # "" /\ config.api_key \in {Unknown, StringValue("")})
              => client.nil
        /\ EmptyKeyRefused

C20_Witness ==
    /\ handled.op = "Configure"
    /\ env = [ACKACK_API_KEY |-> "envkey", ACKACK_ENDPOINT |-> "http://env"]
    /\ config = [api_key |-> StringValue(""), endpoint |-> Null]
    /\ client.nil
    /\ diags = <<Diag("Missing ackack API Key", "api_key")>>

----------------------------------------------------------------------------
(* What a call does when it runs alone against given responses, its context
   live: a function of its arguments and of how its attempts ended. *)

\* The events of attempt i, which ended as o
SoloEvents(i, o) ==
    (IF i > 1 THEN <<Event("backoff", i - 1, retryBaseDelay * (i - 1))>> ELSE <<>>)
        \o <<Event("do", i, 0)>>
        \o (IF o = Outcome("response", 429) THEN <<Event("ratelimit", i, 2)>> ELSE <<>>)

RECURSIVE SoloLog(_, _)
SoloLog(outs, n) == IF n = 0 THEN <<>> ELSE SoloLog(outs, n - 1) \o SoloEvents(n, outs[n])

\* Every backoff timer and every rate-limit timer runs out.
SoloFired(outs) ==
    (Len(outs) - 1) + Cardinality({i \in DOMAIN outs : outs[i] = Outcome("response", 429)})

\* Outcomes after which the call returns at once
EndsCall(o) == o \in {Outcome("response", 200), Outcome("response", 404)}

\* The error returned after the last attempt, the n-th, ended as o
SoloRet(n, o) ==
    CASE o = Outcome("response", 200) -> NilErr
      [] o = Outcome("response", 404) -> MkErr("api", 404, "Not Found", "", 0, n, "")
      [] o = Outcome("response", 503) -> MkErr("api", 503, "Service Unavailable", "", 0, n, "")
      [] o = Outcome("response", 429) ->
            MkErr("api", 429, "rate limited, retry after %d seconds", "", 2, n, "")
      [] o = Outcome("transport", 0) -> MkErr("transport", 0, "request failed", "", 0, n, "conn")
      [] OTHER -> ExhaustedErr

\* The call c, once it has returned, did what it does alone.
AsAlone(c) ==
    c.pc = "done" =>
        IF ~c.urlOK
        THEN /\ c.ret = NewRequestErr
             /\ c.log = <<>> /\ c.outcomes = <<>> /\ c.fired = 0
             /\ c.result = c.result0
        ELSE /\ c.outcomes # <<>>
             /\ Len(c.outcomes) = maxRetries \/ EndsCall(Last(c.outcomes))
             /\ \A i \in 1..(Len(c.outcomes) - 1) : ~EndsCall(c.outcomes[i])
             /\ c.ret = SoloRet(Len(c.outcomes), Last(c.outcomes))
             /\ c.log = SoloLog(c.outcomes, Len(c.outcomes))
             /\ c.fired = SoloFired(c.outcomes)
             /\ c.result = IF Last(c.outcomes) = Outcome("response", 200) /\ c.hasResult
                           THEN [id |-> "m1", name |-> ""]
                           ELSE c.result0
             /\ c.inFlight = 0

\* C17: two calls that run concurrently on one Client do not interfere: no
\* step of a call writes the Client, each call has at most one request in
\* flight, and under every interleaving each call makes the attempts, the
\* waits and the return it makes alone against the same responses.
C17_ConcurrentCallsIndependent ==
    /\ [][client' = client]_vars
    /\ [](/\ AsAlone(CallState) /\ AsAlone(parked)
          /\ inFlight <= 1 /\ parked.inFlight <= 1
          /\ client = TheClient)

C17_Witness ==
    /\ pc = "done" /\ parked.pc = "done"
    /\ running = 2
    /\ outcomes = <<Outcome("response", 429), Outcome("transport", 0), Outcome("response", 200)>>
    /\ parked.outcomes = <<Outcome("response", 503), Outcome("response", 404)>>
    /\ ret = NilErr /\ parked.ret.status = 404

----------------------------------------------------------------------------
\* C22: when a body is supplied, every request handed to Do, on the first
\* attempt and on every retry, carries a reader that has not been read, whose
\* bytes are the JSON serialization of the caller's body object; there is one
\* such request per Do call.
C22_BodySerializedPerAttempt ==
    /\ Len(requests) = Cardinality(DoIndices)
    /\ body # "nil" =>
          \A i \in DOMAIN requests :
             /\ requests[i].n = i
             /\ requests[i].reader = "fresh"
             /\ requests[i].bytes = MarshalJSON(body)
             /\ requests[i].bytes # <<>>
             /\ ValidJSON(requests[i].bytes)

C22_Witness ==
    /\ pc = "done"
    /\ method = "POST"
    /\ body = "ok"
    /\ Len(requests) = maxRetries
    /\ bodyReader = "consumed"
    /\ outcomes = <<Outcome("transport", 0), Outcome("response", 503), Outcome("response", 201)>>

----------------------------------------------------------------------------
(* The error and message fields an error body of the model carries *)

ErrorFieldIn(b) ==
    IF b \in { <<"{", "error", ":", "bad", "}">>,
               <<"{", "error", ":", "bad", ",", "message", ":", "oops", "}">> }
    THEN "bad" ELSE ""

MessageFieldIn(b) ==
    IF b \in { <<"{", "message", ":", "oops", "}">>,
               <<"{", "error", ":", "bad", ",", "message", ":", "oops", "}">> }
    THEN "oops" ELSE ""

\* The most recent attempt received a response that is neither 2xx nor 429.
ErrorResponseReceived ==
    /\ resp.readOK
    /\ ~SuccessStatus(resp.status)
    /\ resp.status # 429

\* The APIError built from that response: returned at once for [400,500),
\* recorded in lastErr otherwise.
ErrorOfResponse == IF ClientErrorStatus(resp.status) THEN ret ELSE lastErr

\* C23 as stated: the message is the error field when that is not empty,
\* else the message field, else the status phrase; ErrorField is the error
\* field.
C23_Original_ErrorFieldFirst ==
    ErrorResponseReceived =>
        /\ ErrorOfResponse.kind = "api"
        /\ ErrorOfResponse.status = resp.status
        /\ ErrorOfResponse.errorField = ErrorFieldIn(resp.body)
        /\ ErrorOfResponse.message =
              IF ErrorFieldIn(resp.body) # "" THEN ErrorFieldIn(resp.body)
              ELSE IF MessageFieldIn(resp.body) # "" THEN MessageFieldIn(resp.body)
              ELSE StatusText(resp.status)

\* C23 (amended): for a response that is neither 2xx nor 429 the message of
\* the APIError is the body's message field when that is not empty, else its
\* error field when that is not empty, else the HTTP status phrase (both are
\* empty when the body is absent or is not valid JSON); ErrorField always
\* carries the error field.
C23_MessageFieldFirst ==
    ErrorResponseReceived =>
        /\ ErrorOfResponse.kind = "api"
        /\ ErrorOfResponse.status = resp.status
        /\ ErrorOfResponse.errorField = ErrorFieldIn(resp.body)
        /\ ErrorOfResponse.message =
              IF MessageFieldIn(resp.body) # "" THEN MessageFieldIn(resp.body)
              ELSE IF ErrorFieldIn(resp.body) # "" THEN ErrorFieldIn(resp.body)
              ELSE StatusText(resp.status)

C23_Witness ==
    /\ pc = "done"
    /\ resp.status = 400
    /\ resp.body = <<"{", "error", ":", "bad", ",", "message", ":", "oops", "}">>
    /\ ret.message = "oops"
    /\ ret.errorField = "bad"

----------------------------------------------------------------------------
\* The loop ran through all its iterations and the call returned after it.
Exhausted == pc = "done" /\ attempt >= maxRetries

\* The error e is the one an attempt that ended as o records.
RecordedBy(e, o) ==
    CASE o.kind \in {"transport", "refused"} -> e.kind = "transport"
      [] o.kind = "readfail" -> e.kind = "readbody"
      [] OTHER -> e.kind = "api" /\ e.status = o.status

\* C24: when the three attempts are used up without a success or a terminal
\* error, the call returns the error recorded by the third attempt, whatever
\* the mix of retryable outcomes; never nil, the generic error or the error
\* of an earlier attempt.
C24_LastAttemptErrorReturned ==
    Exhausted =>
        /\ Len(outcomes) = maxRetries
        /\ ret = lastErr
        /\ ret \notin {NilErr, ExhaustedErr}
        /\ ret.attempt = maxRetries
        /\ RecordedBy(ret, outcomes[maxRetries])
        /\ \A i \in 1..maxRetries : ~(outcomes[i].kind = "response" /\ SuccessStatus(outcomes[i].status))
        /\ (outcomes = <<Outcome("response", 500), Outcome("transport", 0), Outcome("response", 503)>>
               => IsAPIError(ret) /\ ret.status = 503)
        /\ (outcomes = <<Outcome("response", 503), Outcome("response", 429), Outcome("transport", 0)>>
               => ret.kind = "transport")

C24_Witness ==
    /\ Exhausted
    /\ ~ctxDone
    /\ outcomes = <<Outcome("response", 503), Outcome("response", 429), Outcome("transport", 0)>>
    /\ ret = TransportErr(maxRetries, "conn")

----------------------------------------------------------------------------
\* The timers the call has started
Waits == {i \in DOMAIN log : log[i].ev \in {"backoff", "ratelimit"}}

\* C25: every wait of a call is followed by another HTTP attempt unless the
\* context is cancelled during it: no timer is started after the third
\* attempt, also when that attempt was answered with 429, and a call that
\* returned anything but the cancellation error issued an attempt after its
\* last wait.
C25_NoWaitAfterFinalAttempt ==
    /\ \A i \in Waits : log[i].n < maxRetries
    /\ (pc = "done" /\ ret # CtxErr) => \A i \in Waits : \E j \in DoIndices : j > i

----------------------------------------------------------------------------
\* An outcome after which the loop goes on to its next iteration: a failure
\* of Do or of the body read, 429, or a status outside [200,300) and [400,500).
RetryableOutcome(o) ==
    \/ o.kind \in {"transport", "refused", "readfail"}
    \/ o.kind = "response" /\ (o.status = 429 \/ RetryableStatus(o.status))

\* C26: whether a call goes on to another attempt is decided by the outcomes
\* of its attempts alone, not by its method: under GET, POST, PUT and DELETE
\* alike every attempt but the last ended in a retryable outcome, one request
\* was handed to Do per attempt, and a call whose context is live returns
\* only after a non-retryable outcome or after its third attempt; so a POST
\* whose attempt ended in a transport failure or a 5xx is sent again.
C26_RetryIgnoresMethod ==
    /\ \A i \in 1..(Len(outcomes) - 1) : RetryableOutcome(outcomes[i])
    /\ Len(requests) = Len(outcomes) + inFlight
    /\ Len(requests) <= maxRetries
    /\ (pc = "done" /\ ~ctxDone /\ outcomes # <<>>) =>
          Len(outcomes) = maxRetries \/ ~RetryableOutcome(Last(outcomes))

C26_Witness ==
    /\ pc = "done"
    /\ ~ctxDone
    /\ method = "POST"
    /\ outcomes = <<Outcome("response", 500), Outcome("transport", 0), Outcome("transport", 0)>>
    /\ Len(requests) = maxRetries
    /\ \A i \in DOMAIN requests : requests[i].bytes = MarshalJSON("ok")

----------------------------------------------------------------------------
\* The most recent attempt got a status line and its body could not be read.
BodyReadFailed == resp.attempt > 0 /\ ~resp.readOK

\* C27: a response whose body cannot be read is a retryable failure whatever
\* its status: the attempt records the body-read error, decodes nothing and
\* starts no rate-limit wait; while attempts remain the call goes on through
\* the linear backoff to the next attempt, and it returns only the
\* cancellation error of that backoff or, after the third attempt, the
\* body-read error.
C27_BodyReadFailureRetryable ==
    BodyReadFailed =>
        /\ resp.status \in Statuses
        /\ Last(outcomes) = Outcome("readfail", 0)
        /\ attempt = resp.attempt
        /\ lastErr = ReadBodyErr(resp.attempt)
        /\ result = result0
        /\ \A i \in Waits : log[i].ev = "ratelimit" => log[i].n < resp.attempt
        /\ pc \in {"loop", "backoff", "send", "done"}
        /\ pc \in {"backoff", "send"} =>
              /\ resp.attempt < maxRetries
              /\ Last(log) = Event("backoff", resp.attempt, retryBaseDelay * resp.attempt)
        /\ pc = "done" =>
              \/ ret = CtxErr /\ ctxDone /\ resp.attempt < maxRetries
              \/ ret = ReadBodyErr(maxRetries) /\ resp.attempt = maxRetries

C27_Witness ==
    /\ BodyReadFailed
    /\ resp.status = 404
    /\ pc = "done"
    /\ ret = ReadBodyErr(maxRetries)
    /\ outcomes = <<Outcome("readfail", 0), Outcome("response", 503), Outcome("readfail", 0)>>
    /\ ~ctxDone

----------------------------------------------------------------------------
\* What a Delete step does, by the error its delete call returned
DeleteStep ==
    HandlerRan("Delete") =>
        /\ handled'.type \in ResourceTypes
        /\ ~tfState[handled'.type].removed
        /\ (handled'.err = NilErr \/ IsAPIErrorWithStatus(handled'.err, 404))
              => (tfState'[handled'.type] = Removed /\ diags' = <<>>)
        /\ (handled'.err # NilErr /\ ~IsAPIErrorWithStatus(handled'.err, 404))
              => (tfState' = tfState /\ Len(diags') = 1 /\ diags'[1].severity = "error")
        /\ \A u \in ResourceTypes \ {handled'.type} : tfState'[u] = tfState[u]

\* C30: Delete of a monitor, an alert, a system or a report whose delete call
\* ends in an APIError with status 404 reports no error and the resource
\* leaves the state, exactly as after a successful delete; on any other error
\* of the client it adds one error diagnostic and the resource stays in the
\* state.
C30_DeleteIdempotentOnNotFound == [][DeleteStep]_vars

C30_Witness ==
    /\ handled.op = "Delete" /\ handled.type = "alert"
    /\ IsAPIErrorWithStatus(handled.err, 404)
    /\ tfState["alert"] = Removed
    /\ tfState["report"] = Tracked("old", "prev")
    /\ diags = <<>>

----------------------------------------------------------------------------
\* An Update of the system resource has just run.
SystemUpdateRan == HandlerRan("Update") /\ handled'.type = "system"

\* The IDs carried by the calls named op among the calls, as sets
IDsOf(calls, op) == {Elements(calls[i].ids) : i \in {j \in DOMAIN calls : calls[j].op = op}}

Ops(calls) == [i \in DOMAIN calls |-> calls[i].op]

\* The order of the calls when none fails, for planned IDs new and state IDs old
ExpectedOps(new, old) ==
    <<"UpdateSystem">>
      \o (IF new \ old # {} THEN <<"AddMonitorsToSystem">> ELSE <<>>)
      \o (IF old \ new # {} THEN <<"RemoveMonitorsFromSystem">> ELSE <<>>)
      \o <<"GetSystem">>

\* What an Update step of the system resource does, with new the planned
\* monitor IDs and old those of the prior state
SystemUpdateStep ==
    SystemUpdateRan =>
        LET new   == Elements(systemRes'.plan)
            old   == Elements(ElementsAs(systemRes.monitorIDs))
            calls == systemRes'.calls
        IN  /\ IDsOf(calls, "AddMonitorsToSystem") \subseteq {new \ old}
            /\ IDsOf(calls, "RemoveMonitorsFromSystem") \subseteq {old \ new}
            /\ \A a \in IDsOf(calls, "AddMonitorsToSystem"),
                  r \in IDsOf(calls, "RemoveMonitorsFromSystem") : a \cap r = {}
            /\ \A i \in DOMAIN calls : calls[i].op \in {"AddMonitorsToSystem",
                                                       "RemoveMonitorsFromSystem"}
                                          => Len(calls[i].ids) > 0
            /\ Len(calls) <= Len(ExpectedOps(new, old))
            /\ Ops(calls) = SubSeq(ExpectedOps(new, old), 1, Len(calls))
            /\ handled'.err = NilErr =>
                  /\ Ops(calls) = ExpectedOps(new, old)
                  /\ systemRes.members = old => systemRes'.members = new

\* C28: Update of a system adds the planned monitor IDs that are not in the
\* state and removes the state's IDs that are not in the plan; the two sets
\* are disjoint, the add call and the remove call are issued only with a
\* non-empty list, the calls come in the order UpdateSystem,
\* AddMonitorsToSystem, RemoveMonitorsFromSystem, GetSystem, and when the
\* API's membership was the state's set and every call succeeds the
\* membership afterwards is the planned set.
C28_UpdateReconcilesMembership == [][SystemUpdateStep]_vars

C28_Witness ==
    /\ handled.op = "Update" /\ handled.type = "system" /\ handled.err = NilErr
    /\ systemRes.plan = <<"m2", "m3">>
    /\ Ops(systemRes.calls) = <<"UpdateSystem", "AddMonitorsToSystem",
                                "RemoveMonitorsFromSystem", "GetSystem">>
    /\ systemRes.calls[2].ids = <<"m3">>
    /\ systemRes.calls[3].ids = <<"m1">>
    /\ systemRes.members = {"m2", "m3"}

----------------------------------------------------------------------------
\* What an Update step of the system resource leaves in the state
SystemUpdateStateStep ==
    SystemUpdateRan =>
        LET all == UpdateCalls(systemRes'.plan, ElementsAs(systemRes.monitorIDs))
        IN  /\ handled'.err = NilErr =>
                  /\ systemRes'.calls = all
                  /\ systemRes'.monitorIDs = SetValue(systemRes'.plan)
                  /\ diags' = <<>>
            /\ handled'.err # NilErr =>
                  /\ systemRes'.monitorIDs = systemRes.monitorIDs
                  /\ tfState' = tfState
                  /\ Len(diags') = 1 /\ diags'[1].severity = "error"
                  /\ Len(systemRes'.calls) \in 1..Len(all)
                  /\ systemRes'.calls = SubSeq(all, 1, Len(systemRes'.calls))
                  /\ systemRes'.members \in
                        { ServedAll(systemRes.members, systemRes'.calls, n) :
                             n \in {Len(systemRes'.calls) - 1, Len(systemRes'.calls)} }

\* C29: Update of a system writes the new state only when UpdateSystem, the
\* add call, the remove call and GetSystem all succeed; when one of them
\* fails Update adds an error diagnostic, makes none of the later calls and
\* leaves the state, monitor_ids included, as it was, while the API keeps
\* what the earlier calls did to the membership.
C29_StateWrittenOnlyOnSuccess == [][SystemUpdateStateStep]_vars

C29_Witness ==
    /\ handled.op = "Update" /\ handled.type = "system"
    /\ handled.err = TransportErr(maxRetries, "conn")
    /\ systemRes.plan = <<"m2">>
    /\ systemRes.monitorIDs = SetValue(<<"m1">>)
    /\ Ops(systemRes.calls) = <<"UpdateSystem", "AddMonitorsToSystem", "RemoveMonitorsFromSystem">>
    /\ systemRes.members = {"m1", "m2"}
    /\ Len(diags) = 1


\* The attributes an import verification of the monitor leaves out
VerifyIgnored == {"status", "last_checked", "updated_at", "uptime_percentage"}

\* The monitor was created, then imported by its id, and the Read of the
\* import stored a state.
ImportedAndRead ==
    /\ monitorRes # NoMonitorResource
    /\ handled.op = "Read"
    /\ handled.type = "monitor"
    /\ handled.err = NilErr
    /\ monitorRes.state # <<>>
    /\ monitorRes.created # <<>>

\* C21: after ImportState followed by Read of a monitor the API returns as
\* created, the state equals the state Create stored on every attribute
\* except status, last_checked, updated_at and uptime_percentage.
C21_ImportMatchesCreate ==
    ImportedAndRead =>
        \A a \in MonitorAttrs \ VerifyIgnored :
            monitorRes.state[1][a] = monitorRes.created[1][a]

\* The same comparison for the plans that set no optional attribute to the
\* empty string or to zero.
ZeroValuedInPlan ==
    \/ monitorRes.plan.general_region = StringValue("")
    \/ monitorRes.plan.url = StringValue("")
    \/ monitorRes.plan.port = Int64Value(0)

ImportMatchesCreateUnlessZeroValued ==
    (ImportedAndRead /\ ~ZeroValuedInPlan) =>
        \A a \in MonitorAttrs \ VerifyIgnored :
            monitorRes.state[1][a] = monitorRes.created[1][a]

====
